---- MODULE Spec2Model ----
(***************************************************************************)
(* DeckGLMap (WebGL map component): layer composition, render scheduling,  *)
(* zoom debounce and pulse timer, as a state machine.                      *)
(*                                                                         *)
(* Zoom is kept in half levels: mapZoom2 = 2 * maplibreMap.getZoom().      *)
(* Time is kept in units of 50 ms.                                         *)
(***************************************************************************)
EXTENDS Integers, Sequences, FiniteSets, TLC

\* ------------------------------------------------------------------ bounds
MaxZoom2 == 7
MaxBox == 2
MaxData == 1
NumHotspots == 1
NumPipes == 1
MaxCalls == 2
MaxOn == 2
MaxNonEmpty == 2
NumKeys == 2
MaxGestureZoom2 == 3
MaxFilled == 0
MaxFlashes == 2
MaxIds == 3
MaxStamp == 1
MaxBatch == 2
MaxNew == 3
\* the cap of the streaming log, small enough for the trim to happen
MAX_EVENTS == 2
NumScored == 2
MaxNews == 2
MaxPending == 2
MaxAssets == 2
MaxWells == 2
MaxRequests == 3
MaxNow == 4
\* CACHE_TTL of services/wells in half hours
CACHE_TTL == 2

\* ------------------------------------------------------- program constants
DebounceUnits == 3
MoveUnits == 2
PulseUnits == 5
FlashUnits == 60
TwoHours == 120
\* the scoring policy
ScoreFloor == 1
ScoreCap == 5
DecayAfter == 2
ElevatedAt == 2
HighAt == 4
\* the zero-match cycles after which every score has reached the floor
SettleCycles == DecayAfter + (ScoreCap - ScoreFloor) - 1
ZoomFallback2 == 4
InitialThreshold == 0
NoSCZoom == -1
QuakeRadiusScale == 1000

Min(a, b) == IF a < b THEN a ELSE b

Max(a, b) == IF a > b THEN a ELSE b

\* ------------------------------------------------------------- state space
VARIABLES
  layersOn, data, protests, hotspots, highlightedPipes,
  mapZoom2, bbox, moving, zoomed,
  deckOverlay, deckLayers, fromCache,
  renderScheduled, renderPaused, renderPending, rafPending, rafQueue,
  debounceTimers, moveTimer, pulseTimer, pulseIntervals, flashTimers,
  lastZoomThreshold, lastSCZoom, protestSC, protestClusters, pipeCache,
  onCountryClick, onHotspotClick, pick, tooltip, popup, calls,
  hasWindow, localStorage, VITE_VARIANT, siteVariant,
  logEvents, seenIds, autoScroll, isPaused, newEventCount, logCount, addArg,
  resumeVisible, resumeLabel, pausedIds,
  news, scorerCalls, escalation, zeroRun,
  highlightedAssets, layerCachePipelines, lastPipelineHighlightSignature,
  pipelinesLayer, assetFlashes, assetArg,
  cachedWells, cacheTimestamp, now, wellCalls, wellReturn, wellRequests, lastFetched,
  rocs, macroResult, destroyed,
  last, renderCalls, pausedCalls, sinceCross, heavyRuns, heavyLevel

dataVars == <<layersOn, data, protests, hotspots, highlightedPipes>>
mapVars == <<mapZoom2, bbox, moving, zoomed>>
pickVars == <<onCountryClick, onHotspotClick, pick, tooltip, popup, calls>>
schedVars == <<renderScheduled, renderPaused, renderPending, rafPending, rafQueue>>
\* the pulse interval: its countdown (-1 when newsPulseIntervalId is null) and
\* the number of interval timers alive
pulseVars == <<pulseTimer, pulseIntervals>>
\* the interval and the pending flashAssets timeouts
clockVars == <<pulseVars, flashTimers>>
timerVars == <<debounceTimers, moveTimer, clockVars>>
cacheVars == <<lastZoomThreshold, lastSCZoom, protestSC, protestClusters, pipeCache>>
histVars == <<last, renderCalls, pausedCalls, sinceCross, heavyRuns, heavyLevel>>
\* the inputs of the SITE_VARIANT initialiser and the constant it yields
variantVars == <<hasWindow, localStorage, VITE_VARIANT, siteVariant>>
\* what lives outside the map component
\* the StreamingLogPanel: its fields, the count badge, the argument of the
\* last addEvents call, whether the resume button is displayed and the number
\* in its text, and the ids addEvents has added since the panel was paused
logVars == <<logEvents, seenIds, autoScroll, isPaused, newEventCount, logCount, addArg,
             resumeVisible, resumeLabel, pausedIds>>
\* the stored feed, the scorer calls of the last updateHotspotActivity, the
\* scorer's state per hotspot id, and the zero-match cycles in a row
scorerVars == <<news, scorerCalls, escalation, zeroRun>>
\* the highlight sets of every asset type with their ids as strings, the
\* layerCache entry of the pipelines layer and the signature it was built
\* with, the layer the last createPipelinesLayer() returned, the flashes
\* whose timeout has not fired, and the argument of the last highlightAssets
assetVars == <<highlightedAssets, layerCachePipelines, lastPipelineHighlightSignature,
               pipelinesLayer, assetFlashes, assetArg>>
\* services/wells: the module's cache, the clock, the calls in flight, what
\* the last settled call returned (with the response it got), the network
\* requests made so far, and the list and time of the last fetch that succeeded
wellVars == <<cachedWells, cacheTimestamp, now, wellCalls, wellReturn, wellRequests, lastFetched>>
\* api/opa-chart: the rates of change of the fetched prices and the result
\* of the handler
macroVars == <<rocs, macroResult>>
extraVars == <<assetVars, wellVars, macroVars, destroyed>>
auxVars == <<variantVars, logVars, scorerVars, extraVars>>
\* the renderer's side of the map, and everything the map's handlers never touch
overlayVars == <<deckOverlay, deckLayers, fromCache, pickVars>>
deckVars == <<overlayVars, auxVars>>
vars == <<dataVars, mapVars, deckVars, schedVars, timerVars, cacheVars, histVars>>

\* keys of state.layers read by buildLayers, in the order they are read
LayerKeys == <<"pipelines", "conflicts", "bases", "nuclear", "hotspots",
               "natural", "fires", "weather", "outages", "ais", "protests",
               "military", "waterways", "economic", "minerals">>

KeySet == {LayerKeys[i] : i \in 1..Len(LayerKeys)}

\* the plain data collections of the instance (protests are kept apart)
Domains == {"earthquakes", "naturalEvents", "firmsFireData", "weatherAlerts",
            "outages", "aisDensity", "aisDisruptions", "militaryVessels",
            "militaryVesselClusters", "militaryFlights", "militaryFlightClusters"}

\* a collection is 0 (the empty array) or the identity of a non-empty array
DataVals == 0..MaxData

\* protest collections: 0 = [], 1 = [calm], 2 = [riot], 3 = [calm, riot];
\* the calm event lies in map cell 0, the high-severity riot in cell 1
ProtestColls == 0..3

ProtestEvents(p) == (IF p \in {1, 3} THEN {0} ELSE {}) \cup (IF p \in {2, 3} THEN {1} ELSE {})

Boxes == 0..MaxBox

\* cells inside viewport b: viewport 0 shows both cells, b > 0 only cell b-1
Covers(b) == {c \in {0, 1} : b = 0 \/ b = c + 1}

Levels == {"low", "elevated", "high"}

HotspotIds == 1..NumHotspots

PipeIds == 1..NumPipes

Zooms2 == 0..MaxZoom2

GestureZooms == 0..Min(MaxGestureZoom2, MaxZoom2)

\* LAYER_ZOOM_THRESHOLDS: the keys that declare a minZoom, and the minZoom
LAYER_ZOOM_THRESHOLDS == [bases |-> 3, nuclear |-> 3, conflicts |-> 1, economic |-> 3, natural |-> 1]

\* `getZoom() || 2`: a zoom of exactly 0 is falsy and reads as 2
ZoomOr2(z2) == IF z2 = 0 THEN ZoomFallback2 ELSE z2

\* Math.floor of a zoom given in half levels
Floor2(z2) == z2 \div 2

isLayerVisible(layerKey) ==
  IF layerKey \notin DOMAIN LAYER_ZOOM_THRESHOLDS THEN TRUE
  ELSE ZoomOr2(mapZoom2) >= 2 * LAYER_ZOOM_THRESHOLDS[layerKey]

\* ---------------------------------------------------------------- clusters
\* protestClusters is kept as the query it was computed from: <<collection,
\* floored zoom, viewport>>, or <<>> for the initial empty array.
\* A cluster is [count, high, cell, items]: the two events merge into one
\* cluster below zoom 2, placed in cell 0, and getClusters returns the clusters
\* and points whose own position lies in the viewport.
ClustersOf(q) ==
  IF q = <<>> THEN {}
  ELSE LET ev == ProtestEvents(q[1])
           all == IF ev = {0, 1} /\ q[2] < 2
                  THEN {[count |-> 2, high |-> TRUE, cell |-> 0, items |-> {0, 1}]}
                  ELSE {[count |-> 1, high |-> (e = 1), cell |-> e, items |-> {e}] : e \in ev}
       IN {c \in all : c.cell \in Covers(q[3])}

\* an updateClusterData that records the zoom on one call and queries the
\* index on the next
updateClusterData_Late(c) ==
  LET zoom == Floor2(mapZoom2)
  IN IF zoom = c.lastSCZoom
     THEN [c EXCEPT !.protestClusters = IF protestSC = -1 THEN c.protestClusters
                                        ELSE <<protestSC, zoom, bbox>>]
     ELSE [c EXCEPT !.lastSCZoom = zoom]

\* updateClusterData: the new <<lastSCZoom, protestClusters>>
updateClusterData(c) ==
  LET zoom == Floor2(mapZoom2)
  IN IF zoom = c.lastSCZoom THEN c
     ELSE [c EXCEPT !.lastSCZoom = zoom,
                    !.protestClusters = IF protestSC = -1 THEN c.protestClusters
                                        ELSE <<protestSC, zoom, bbox>>]

\* getSetSignature: the sorted ids of the set
RECURSIVE getSetSignature(_)
getSetSignature(set) ==
  IF set = {} THEN <<>>
  ELSE LET m == CHOOSE x \in set : \A y \in set : x <= y
       IN <<m>> \o getSetSignature(set \ {m})

needsPulseAnimation ==
  \/ \E c \in ClustersOf(protestClusters) : c.high
  \/ \E h \in DOMAIN hotspots : hotspots[h].level = "high" \/ hotspots[h].hasBreaking

\* ------------------------------------------------------------------ layers
\* a layer is its id and the data it encodes, as a tuple of numbers
Lyr(id, d) == [id |-> id, data |-> d]

createGhostLayer(id, d) == Lyr(id \o "-ghost", d)

LevelCode(l) == CASE l = "low" -> 0 [] l = "elevated" -> 1 [] l = "high" -> 2

HotspotData == [h \in DOMAIN hotspots |-> 2 * LevelCode(hotspots[h].level) + (IF hotspots[h].hasBreaking THEN 1 ELSE 0)]

\* getFillColor of hotspots-layer without its alpha: d.escalationScore || 1
\* picks the band (0 stands for a field that is not set)
getFillColor(d) ==
  LET score == IF d.escalationScore = 0 THEN 1 ELSE d.escalationScore
  IN IF score >= 4 THEN <<255, 68, 68>>
     ELSE IF score >= 2 THEN <<255, 165, 0>>
     ELSE <<255, 255, 0>>

\* createPipelinesLayer with a cache that is never invalidated
createPipelinesLayer_Stale(c) ==
  IF c.pipeCache # <<-1>> THEN c
  ELSE [c EXCEPT !.pipeCache = getSetSignature(highlightedPipes)]

\* createPipelinesLayer: the cached layer is returned while the highlight
\* signature is the one it was built with
createPipelinesLayer(c) ==
  LET sig == getSetSignature(highlightedPipes)
  IN IF c.pipeCache # <<-1>> /\ sig = c.pipeCache THEN c
     ELSE [c EXCEPT !.pipeCache = sig]

createHotspotsLayers ==
  <<Lyr("hotspots-layer", HotspotData \o <<ZoomOr2(mapZoom2)>>),
    createGhostLayer("hotspots-layer", HotspotData)>>
  \o (IF \E h \in DOMAIN hotspots : hotspots[h].level = "high" \/ hotspots[h].hasBreaking
      THEN <<Lyr("hotspots-pulse", HotspotData \o <<ZoomOr2(mapZoom2)>>)>> ELSE <<>>)

\* createProtestClusterLayers with the ghost layer pushed last
createProtestClusterLayers_GhostLast(c) ==
  LET cl == ClustersOf(c.protestClusters)
  IN <<Lyr("protest-clusters-layer", c.protestClusters)>>
     \o (IF \E x \in cl : x.count > 1
         THEN <<Lyr("protest-clusters-badge", c.protestClusters)>> ELSE <<>>)
     \o (IF \E x \in cl : x.high
         THEN <<Lyr("protest-clusters-pulse", c.protestClusters)>> ELSE <<>>)
     \o <<createGhostLayer("protest-clusters-layer", c.protestClusters)>>

createProtestClusterLayers(c) ==
  LET cl == ClustersOf(c.protestClusters)
  IN <<Lyr("protest-clusters-layer", c.protestClusters),
       createGhostLayer("protest-clusters-layer", c.protestClusters)>>
     \o (IF \E x \in cl : x.count > 1
         THEN <<Lyr("protest-clusters-badge", c.protestClusters)>> ELSE <<>>)
     \o (IF \E x \in cl : x.high
         THEN <<Lyr("protest-clusters-pulse", c.protestClusters)>> ELSE <<>>)

\* earthquake collection v holds one quake; its magnitude in half units
\* (collection 1 is the quake of magnitude 5.5)
Magnitude2(v) == 9 + 2 * v

\* createEarthquakesLayer's getRadius, Math.pow(2, magnitude) * 1000, kept as
\* the square of the power and the scale
getRadius(mag2) == [sq |-> 2 ^ mag2, scale |-> QuakeRadiusScale]

\* the caches buildLayers reads and writes
Caches == [lastSCZoom |-> lastSCZoom, protestClusters |-> protestClusters, pipeCache |-> pipeCache]

\* the caches after one buildLayers() call that starts from caches c
buildCaches(c) ==
  LET c1 == IF layersOn["pipelines"] THEN createPipelinesLayer(c) ELSE c
  IN IF layersOn["protests"] /\ protests # 0 THEN updateClusterData(c1) ELSE c1

Opt(cond, layers) == IF cond THEN layers ELSE <<>>

\* a data-gated push that forgets the length test
DataLayer_NoGate(cond, id, dom) == Opt(cond, <<Lyr(id, <<data[dom]>>)>>)

DataLayer(cond, id, dom) == Opt(cond /\ data[dom] # 0, <<Lyr(id, <<data[dom]>>)>>)

\* a data-gated push that leaves the ghost layer out
GhostedDataLayer_NoGhost(cond, id, dom) == Opt(cond /\ data[dom] # 0, <<Lyr(id, <<data[dom]>>)>>)

GhostedDataLayer(cond, id, dom) ==
  Opt(cond /\ data[dom] # 0, <<Lyr(id, <<data[dom]>>), createGhostLayer(id, <<data[dom]>>)>>)

\* the list buildLayers() returns when it starts from caches c
buildLayers(c) ==
  LET c2 == buildCaches(c)
  IN Opt(layersOn["pipelines"], <<Lyr("pipelines-layer", c2.pipeCache)>>)
     \o Opt(layersOn["conflicts"], <<Lyr("conflict-zones-layer", <<>>)>>)
     \o Opt(layersOn["bases"] /\ isLayerVisible("bases"),
            <<Lyr("bases-layer", <<ZoomOr2(mapZoom2)>>), createGhostLayer("bases-layer", <<>>)>>)
     \o Opt(layersOn["nuclear"] /\ isLayerVisible("nuclear"),
            <<Lyr("nuclear-layer", <<>>), createGhostLayer("nuclear-layer", <<>>)>>)
     \o Opt(layersOn["hotspots"], createHotspotsLayers)
     \o GhostedDataLayer(layersOn["natural"], "earthquakes-layer", "earthquakes")
     \o DataLayer(layersOn["natural"], "natural-events-layer", "naturalEvents")
     \o DataLayer(layersOn["fires"], "fires-layer", "firmsFireData")
     \o DataLayer(layersOn["weather"], "weather-layer", "weatherAlerts")
     \o GhostedDataLayer(layersOn["outages"], "outages-layer", "outages")
     \o DataLayer(layersOn["ais"], "ais-density-layer", "aisDensity")
     \o DataLayer(layersOn["ais"], "ais-disruptions-layer", "aisDisruptions")
     \o Opt(layersOn["ais"], <<Lyr("ports-layer", <<>>)>>)
     \o Opt(layersOn["protests"] /\ protests # 0, createProtestClusterLayers(c2))
     \o DataLayer(layersOn["military"], "military-vessels-layer", "militaryVessels")
     \o DataLayer(layersOn["military"], "military-vessel-clusters-layer", "militaryVesselClusters")
     \o DataLayer(layersOn["military"], "military-flights-layer", "militaryFlights")
     \o DataLayer(layersOn["military"], "military-flight-clusters-layer", "militaryFlightClusters")
     \o Opt(layersOn["waterways"], <<Lyr("waterways-layer", <<>>)>>)
     \o Opt(layersOn["economic"] /\ isLayerVisible("economic"), <<Lyr("economic-centers-layer", <<>>)>>)
     \o Opt(layersOn["minerals"], <<Lyr("minerals-layer", <<>>)>>)

\* ------------------------------------------------------------- bookkeeping
\* last: the handler that ran last; the buildLayers() calls it made (rbuilds:
\* those made by render()'s frame callback); whether it called render() and
\* debouncedRebuildLayers(); whether the zoomend handler ran in it; the frame
\* callbacks it ran; and, for a frame, the render() calls it serves (for an
\* unpause, those made during the pause)
Last(op, builds, req, cross) ==
  [op |-> op, builds |-> builds, rbuilds |-> 0, req |-> req, cross |-> cross,
   zend |-> FALSE, ran |-> <<>>, calls |-> 0]

Count(name, q) == Cardinality({i \in 1..Len(q) : q[i] = name})

Abs(x) == IF x < 0 THEN -x ELSE x

OnCount(l) == Cardinality({k \in KeySet : l[k]})

NonEmptyCount(d) == Cardinality({k \in Domains : d[k] # 0})

\* --------------------------------------------------------------- scheduler
\* render() without the renderScheduled guard
render_NoGuard(paused, pending) ==
  /\ renderPending' = (IF paused THEN TRUE ELSE pending)
  /\ renderScheduled' = (IF paused THEN renderScheduled ELSE TRUE)
  /\ rafQueue' = IF ~paused THEN Append(rafQueue, "render") ELSE rafQueue
  /\ renderCalls' = IF paused THEN renderCalls ELSE Min(renderCalls + 1, MaxCalls)

\* render(), called with renderPaused = paused and renderPending = pending
render(paused, pending) ==
  /\ renderPending' = (IF paused THEN TRUE ELSE pending)
  /\ renderScheduled' = (IF paused THEN renderScheduled ELSE TRUE)
  /\ rafQueue' = IF ~paused /\ ~renderScheduled THEN Append(rafQueue, "render") ELSE rafQueue
  /\ renderCalls' = IF paused THEN renderCalls ELSE Min(renderCalls + 1, MaxCalls)

\* the wrapper rafSchedule returns: one animation frame in flight at a time
rafSchedule(queue, pending) == IF pending THEN queue ELSE Append(queue, "raf")

\* the wrapper debounce returns: the pending timeout is cleared, a new one set
debounce(timers) == {DebounceUnits}

\* rafUpdateLayers() and nothing else of the scheduler
rafUpdateLayers ==
  /\ rafPending' = TRUE
  /\ rafQueue' = rafSchedule(rafQueue, rafPending)
  /\ UNCHANGED <<renderScheduled, renderPaused, renderPending, renderCalls, pausedCalls>>

\* the ids of the layers that a buildLayers() starting from caches c takes
\* from layerCache instead of constructing them
CachedIds(c) ==
  IF layersOn["pipelines"] /\ c.pipeCache # <<-1>>
     /\ getSetSignature(highlightedPipes) = c.pipeCache
  THEN {"pipelines-layer"} ELSE {}

\* n >= 1 buildLayers() calls in a row, the last result handed to the
\* renderer; fromCache tells which of its layers came out of layerCache
BuildTimes(n) ==
  /\ fromCache' = CachedIds(IF n >= 2 THEN buildCaches(Caches) ELSE Caches)
  /\ UNCHANGED <<pickVars, auxVars>>
  /\ deckLayers' = buildLayers(Caches)
  /\ lastSCZoom' = buildCaches(Caches).lastSCZoom
  /\ protestClusters' = buildCaches(Caches).protestClusters
  /\ pipeCache' = buildCaches(Caches).pipeCache

\* one buildLayers() whose result is handed to the renderer
BuildAndSet ==
  /\ fromCache' = CachedIds(Caches)
  /\ UNCHANGED <<pickVars, auxVars>>
  /\ deckLayers' = buildLayers(Caches)
  /\ lastSCZoom' = buildCaches(Caches).lastSCZoom
  /\ protestClusters' = buildCaches(Caches).protestClusters
  /\ pipeCache' = buildCaches(Caches).pipeCache

\* a plain render() call of a handler that touches nothing else of the scheduler
PlainRender ==
  /\ render(renderPaused, renderPending)
  /\ pausedCalls' = IF renderPaused THEN Min(pausedCalls + 1, MaxCalls) ELSE pausedCalls
  /\ UNCHANGED <<renderPaused, rafPending>>

NoBuild == UNCHANGED <<deckVars, cacheVars>>

NoZoomHist == UNCHANGED <<sinceCross, heavyRuns, heavyLevel>>

\* ----------------------------------------------------------------- picking
\* a PickingInfo is [object, layerId, coordinate]: object is <<>> when the
\* pick hit nothing and <<obj>> otherwise, layerId is info.layer?.id || "",
\* coordinate is <<>> or <<lon, lat>>
endsWith(str, suffix) ==
  Len(str) >= Len(suffix) /\ SubSeq(str, Len(str) - Len(suffix) + 1, Len(str)) = suffix

\* a resolver that looks the raw layer id up
stripGhost_Keep(rawLayerId) == rawLayerId

\* rawLayerId.endsWith("-ghost") ? rawLayerId.slice(0, -6) : rawLayerId
stripGhost(rawLayerId) ==
  IF endsWith(rawLayerId, "-ghost") THEN SubSeq(rawLayerId, 1, Len(rawLayerId) - 6)
  ELSE rawLayerId

\* the case labels of getTooltip's switch except the protest cluster case
TooltipIds == {"hotspots-layer", "earthquakes-layer", "military-vessels-layer",
               "military-flights-layer", "military-vessel-clusters-layer",
               "military-flight-clusters-layer", "protests-layer", "bases-layer",
               "nuclear-layer", "pipelines-layer", "conflict-zones-layer",
               "natural-events-layer", "ais-density-layer", "waterways-layer",
               "economic-centers-layer", "ports-layer", "minerals-layer",
               "ais-disruptions-layer", "weather-layer", "outages-layer"}

layerToPopupType ==
  ("conflict-zones-layer" :> "conflict") @@ ("bases-layer" :> "base")
  @@ ("nuclear-layer" :> "nuclear") @@ ("pipelines-layer" :> "pipeline")
  @@ ("earthquakes-layer" :> "earthquake") @@ ("weather-layer" :> "weather")
  @@ ("outages-layer" :> "outage") @@ ("protests-layer" :> "protest")
  @@ ("military-flights-layer" :> "militaryFlight")
  @@ ("military-vessels-layer" :> "militaryVessel")
  @@ ("military-vessel-clusters-layer" :> "militaryVesselCluster")
  @@ ("military-flight-clusters-layer" :> "militaryFlightCluster")
  @@ ("natural-events-layer" :> "natEvent") @@ ("waterways-layer" :> "waterway")
  @@ ("economic-centers-layer" :> "economic") @@ ("ports-layer" :> "port")
  @@ ("minerals-layer" :> "mineral") @@ ("ais-disruptions-layer" :> "ais")

\* items[0] of a cluster, as the protest record it is
FirstItem(cluster) == [event |-> CHOOSE e \in cluster.items : \A f \in cluster.items : e <= f]

\* a tooltip is <<>> (null) or <<[tmpl, of]>>: the case that produced the
\* html and the object whose fields it prints
Tip(tmpl, of) == <<[tmpl |-> tmpl, of |-> of]>>

getTooltip(info) ==
  IF info.object = <<>> THEN <<>>
  ELSE LET layerId == stripGhost(info.layerId)
           obj == info.object[1]
       IN CASE layerId = "protest-clusters-layer" ->
                 IF obj.count = 1 THEN Tip("protest-clusters-layer/single", FirstItem(obj))
                 ELSE Tip("protest-clusters-layer/count", obj)
            [] layerId = "conflict-zones-layer" -> Tip(layerId, obj.properties)
            [] layerId \in TooltipIds \ {"conflict-zones-layer"} -> Tip(layerId, obj)
            [] OTHER -> <<>>

Call(fn, args) == [fn |-> fn, args |-> args]

\* the click on the empty map: onCountryClick gets (lat, lon) out of the
\* [lon, lat] coordinate
CountryClick(info) ==
  IF info.coordinate # <<>> /\ onCountryClick
  THEN <<Call("onCountryClick", <<info.coordinate[2], info.coordinate[1]>>)>>
  ELSE <<>>

\* the hotspot branch of handleClick
HotspotClick(obj) ==
  <<Call("popup.show", <<"hotspot", obj>>), Call("popup.loadHotspotGdeltContext", <<obj>>)>>
  \o (IF onHotspotClick THEN <<Call("onHotspotClick", <<obj>>)>> ELSE <<>>)

\* a cluster branch without the single-item test
ClusterClick_NoSingle(cluster) ==
  <<Call("popup.show", <<"protestCluster", [items |-> cluster.items]>>)>>

\* the cluster branch of handleClick
ClusterClick(cluster) ==
  IF cluster.count = 1 /\ cluster.items # {}
  THEN <<Call("popup.show", <<"protest", FirstItem(cluster)>>)>>
  ELSE <<Call("popup.show", <<"protestCluster", [items |-> cluster.items]>>)>>

\* a table lookup that falls back to a generic popup
TableClick_Default(layerId, obj) ==
  IF layerId \notin DOMAIN layerToPopupType THEN <<Call("popup.show", <<"unknown", obj>>)>>
  ELSE <<Call("popup.show", <<layerToPopupType[layerId],
              IF layerId = "conflict-zones-layer" THEN [conflict |-> obj.properties.id] ELSE obj>>)>>

\* the layerToPopupType lookup of handleClick; a conflict feature is replaced
\* by the CONFLICT_ZONES entry of its id
TableClick(layerId, obj) ==
  IF layerId \notin DOMAIN layerToPopupType THEN <<>>
  ELSE <<Call("popup.show", <<layerToPopupType[layerId],
              IF layerId = "conflict-zones-layer" THEN [conflict |-> obj.properties.id] ELSE obj>>)>>

\* the object branches of handleClick
ObjectClick(info) ==
  LET layerId == stripGhost(info.layerId)
      obj == info.object[1]
  IN CASE layerId = "hotspots-layer" -> HotspotClick(obj)
       [] layerId = "protest-clusters-layer" -> ClusterClick(obj)
       [] OTHER -> TableClick(layerId, obj)

\* a handleClick that runs the country detection on every click
handleClick_CountryAlways(info) ==
  IF info.object = <<>> THEN CountryClick(info) ELSE CountryClick(info) \o ObjectClick(info)

\* handleClick: the calls it makes, in order
handleClick(info) ==
  IF info.object = <<>> THEN CountryClick(info) ELSE ObjectClick(info)

\* the popup on screen after the calls cs: the argument of the last show
PopupAfter(cs, shown) ==
  LET idx == {i \in 1..Len(cs) : cs[i].fn = "popup.show"}
  IN IF idx = {} THEN shown
     ELSE <<cs[CHOOSE i \in idx : \A j \in idx : j <= i].args>>

NoPick == [object |-> <<>>, layerId |-> "", coordinate |-> <<>>]

PickIdle ==
  /\ onCountryClick = FALSE /\ onHotspotClick = FALSE
  /\ pick = NoPick /\ tooltip = <<>> /\ popup = <<>> /\ calls = <<>>

\* ------------------------------------------------------------ site variant
\* an optional string is <<>> (null, undefined) or <<s>>
RECURSIVE trimStart(_)
trimStart(str) ==
  IF Len(str) > 0 /\ SubSeq(str, 1, 1) = " " THEN trimStart(SubSeq(str, 2, Len(str)))
  ELSE str

RECURSIVE trimEnd(_)
trimEnd(str) ==
  IF Len(str) > 0 /\ SubSeq(str, Len(str), Len(str)) = " "
  THEN trimEnd(SubSeq(str, 1, Len(str) - 1))
  ELSE str

trim(str) == trimEnd(trimStart(str))

\* the keys the two copies of the initialiser read
StorageKeys == {"energymonitor-variant", "worldmonitor-variant"}

\* the SITE_VARIANT initialiser that reads localStorage[key]
SITE_VARIANT(key) ==
  LET stored == IF localStorage[key] = <<>> THEN <<>> ELSE <<trim(localStorage[key][1])>>
  IN IF hasWindow /\ stored \in {<<"tech">>, <<"full">>, <<"energy">>} THEN stored[1]
     ELSE trim(IF VITE_VARIANT = <<>> \/ VITE_VARIANT = <<"">> THEN "full" ELSE VITE_VARIANT[1])

\* the module is evaluated: SITE_VARIANT gets its value, once
EvalVariant(key) ==
  /\ siteVariant = <<>>
  /\ siteVariant' = <<[key |-> key, value |-> SITE_VARIANT(key)]>>
  /\ UNCHANGED <<hasWindow, localStorage, VITE_VARIANT>>
  /\ last' = Last("SITE_VARIANT", 0, FALSE, FALSE)
  /\ UNCHANGED <<dataVars, mapVars, overlayVars, schedVars, timerVars, cacheVars, logVars, scorerVars, extraVars>>
  /\ UNCHANGED <<renderCalls, pausedCalls, sinceCross, heavyRuns, heavyLevel>>

VariantIdle ==
  /\ hasWindow = TRUE /\ localStorage = [k \in StorageKeys |-> <<>>]
  /\ VITE_VARIANT = <<>> /\ siteVariant = <<>>

\* ------------------------------------------------------------ streaming log
\* a StreamingLogEvent is [id, timestamp]
EventRecords == [id : 1..MaxIds, timestamp : 0..MaxStamp]

\* the loop of addEvents over the batch: r is [events, seen, added]
RECURSIVE AddLoop(_, _)
AddLoop(batch, r) ==
  IF batch = <<>> THEN r
  ELSE LET event == Head(batch)
       IN IF event.id \in r.seen THEN AddLoop(Tail(batch), r)
          ELSE AddLoop(Tail(batch), [events |-> Append(r.events, event),
                                     seen |-> r.seen \cup {event.id},
                                     added |-> r.added + 1])

\* e inserted into a list sorted by timestamp descending, after its equals
RECURSIVE InsertDesc(_, _)
InsertDesc(e, sorted) ==
  IF sorted = <<>> THEN <<e>>
  ELSE IF e.timestamp > Head(sorted).timestamp THEN <<e>> \o sorted
  ELSE <<Head(sorted)>> \o InsertDesc(e, Tail(sorted))

\* events.sort((a, b) => b.timestamp - a.timestamp): stable, newest first
RECURSIVE SortDesc(_)
SortDesc(evs) ==
  IF evs = <<>> THEN <<>>
  ELSE InsertDesc(evs[Len(evs)], SortDesc(SubSeq(evs, 1, Len(evs) - 1)))

\* a trim that shifts the events out at the front
trimEvents_Shift(evs, seen) ==
  [events |-> SubSeq(evs, Len(evs) - Min(Len(evs), MAX_EVENTS) + 1, Len(evs)),
   seen |-> seen \ {evs[i].id : i \in 1..(Len(evs) - MAX_EVENTS)}]

\* a trim that pops the events and keeps their ids
trimEvents_KeepIds(evs, seen) ==
  [events |-> SubSeq(evs, 1, Min(Len(evs), MAX_EVENTS)), seen |-> seen]

\* while (events.length > MAX_EVENTS) { removed = events.pop(); seenIds.delete(removed.id) }
trimEvents(evs, seen) ==
  [events |-> SubSeq(evs, 1, Min(Len(evs), MAX_EVENTS)),
   seen |-> seen \ {evs[i].id : i \in (MAX_EVENTS + 1)..Len(evs)}]

LogStep(op) ==
  /\ last' = Last(op, 0, FALSE, FALSE)
  /\ UNCHANGED <<dataVars, mapVars, overlayVars, schedVars, timerVars, cacheVars, variantVars, scorerVars, extraVars>>
  /\ UNCHANGED <<renderCalls, pausedCalls, sinceCross, heavyRuns, heavyLevel>>

\* showResumeButton() with newEventCount = n
showResumeButton(n) == resumeLabel' = <<n>> /\ resumeVisible' = TRUE

addEvents(batch) ==
  LET r == AddLoop(batch, [events |-> logEvents, seen |-> seenIds, added |-> 0])
      t == trimEvents(SortDesc(r.events), r.seen)
  IN /\ isPaused /\ r.added > 0 => newEventCount + r.added <= MaxNew
     /\ addArg' = batch
     /\ IF r.added = 0
        THEN UNCHANGED <<logEvents, seenIds, autoScroll, isPaused, newEventCount, logCount,
                         resumeVisible, resumeLabel, pausedIds>>
        ELSE /\ logEvents' = t.events
             /\ seenIds' = t.seen
             /\ logCount' = Len(t.events)
             /\ newEventCount' = IF isPaused THEN newEventCount + r.added ELSE newEventCount
             /\ IF isPaused THEN showResumeButton(newEventCount + r.added)
                ELSE UNCHANGED <<resumeVisible, resumeLabel>>
             /\ pausedIds' = IF isPaused THEN pausedIds \cup (r.seen \ seenIds) ELSE pausedIds
             /\ UNCHANGED <<autoScroll, isPaused>>
     /\ LogStep("addEvents")

clear ==
  /\ logEvents' = <<>>
  /\ seenIds' = {}
  /\ newEventCount' = 0
  /\ logCount' = 0
  /\ UNCHANGED <<autoScroll, isPaused, addArg, resumeVisible, resumeLabel, pausedIds>>
  /\ LogStep("clear")

\* the scroll listener of the content element
Scroll(atBottom) ==
  /\ IF atBottom
     THEN /\ autoScroll' = TRUE /\ isPaused' = FALSE /\ newEventCount' = 0
          /\ resumeVisible' = FALSE /\ pausedIds' = {}
     ELSE IF ~isPaused
     THEN /\ autoScroll' = FALSE /\ isPaused' = TRUE /\ pausedIds' = {}
          /\ UNCHANGED <<newEventCount, resumeVisible>>
     ELSE UNCHANGED <<autoScroll, isPaused, newEventCount, resumeVisible, pausedIds>>
  /\ UNCHANGED <<logEvents, seenIds, logCount, addArg, resumeLabel>>
  /\ LogStep("scroll")

\* a click on the resume button, which can be clicked while it is displayed
resumeAutoScroll ==
  /\ resumeVisible
  /\ autoScroll' = TRUE /\ isPaused' = FALSE /\ newEventCount' = 0
  /\ resumeVisible' = FALSE /\ pausedIds' = {}
  /\ UNCHANGED <<logEvents, seenIds, logCount, addArg, resumeLabel>>
  /\ LogStep("resume")

LogIdle ==
  /\ logEvents = <<>> /\ seenIds = {} /\ autoScroll = TRUE /\ isPaused = FALSE
  /\ newEventCount = 0 /\ logCount = 0 /\ addArg = <<>>
  /\ resumeVisible = FALSE /\ resumeLabel = <<>> /\ pausedIds = {}

\* ------------------------------------------------------- hotspot escalation
Upper == "ABCDEFGHIJKLMNOPQRSTUVWXYZ"

Lower == "abcdefghijklmnopqrstuvwxyz"

\* one character of toLowerCase
LowerChar(c) ==
  IF \E i \in 1..Len(Upper) : SubSeq(Upper, i, i) = c
  THEN LET i == CHOOSE j \in 1..Len(Upper) : SubSeq(Upper, j, j) = c IN SubSeq(Lower, i, i)
  ELSE c

RECURSIVE toLowerCase(_)
toLowerCase(str) ==
  IF Len(str) = 0 THEN str
  ELSE LowerChar(SubSeq(str, 1, 1)) \o toLowerCase(SubSeq(str, 2, Len(str)))

\* str.includes(part)
includes(str, part) ==
  \E i \in 1..(Len(str) - Len(part) + 1) : SubSeq(str, i, i + Len(part) - 1) = part

\* the keywords of the hotspots, as the hotspot configuration lists them
Keywords == <<{"Iran", "tehran"}, {"Gaza"}>>

\* a news item is [title, age]: age is Date.now() - pubDate in minutes
recentNews(feed) == SelectSeq(feed, LAMBDA n : n.age < TwoHours)

\* the titles the feeds are made of
Titles == {"IRAN talks", "gaza and Tehran", "Weather"}

\* keywords.some(kw => title.toLowerCase().includes(kw.toLowerCase()))
TitleMentions(title, h) ==
  \E kw \in Keywords[h] : includes(toLowerCase(title), toLowerCase(kw))

\* TitleMentions over Titles, computed once
MentionTable == [t \in Titles |-> [h \in DOMAIN Keywords |-> TitleMentions(t, h)]]

Mentions(item, h) == MentionTable[item.title][h]

\* matchCounts.get(h.id) || 0 after the loops over recentNews and hotspots
matchCounts(feed) ==
  [h \in DOMAIN hotspots |->
     Cardinality({i \in 1..Len(recentNews(feed)) : Mentions(recentNews(feed)[i], h)})]

\* a velocity that divides by the number of items
velocity_PerItem(matchCount) == IF matchCount > 0 THEN <<matchCount, matchCount>> ELSE <<0, 1>>

\* matchCount > 0 ? matchCount / 2 : 0, as the fraction <<numerator, denominator>>
velocity(matchCount) == IF matchCount > 0 THEN <<matchCount, 2>> ELSE <<0, 1>>

\* the arguments of the updateHotspotEscalation call for hotspot h
ScorerCall(h, matchCount) ==
  [id |-> h, matchCount |-> matchCount, hasBreaking |-> matchCount > 0,
   velocity |-> velocity(matchCount)]

\* the scorer: the score rises with the matches and the velocity up to the
\* cap, and after DecayAfter cycles in a row without a match it falls by one
\* per cycle down to the floor
updateHotspotEscalation(st, matchCount, hasBreakingFlag, vel) ==
  IF matchCount > 0
  THEN [score |-> Min(ScoreCap, st.score + matchCount + (vel[1] \div vel[2])
                                 + (IF hasBreakingFlag THEN 1 ELSE 0)),
        quiet |-> 0]
  ELSE LET q == Min(st.quiet + 1, DecayAfter)
       IN [score |-> IF q >= DecayAfter THEN Max(ScoreFloor, st.score - 1) ELSE st.score,
           quiet |-> q]

\* getLevel: the level of a score
LevelOf(score) ==
  IF score >= HighAt THEN "high" ELSE IF score >= ElevatedAt THEN "elevated" ELSE "low"

\* a loop that calls the scorer for the matched hotspots only
EscalationAfter_MatchedOnly(feed) ==
  [h \in DOMAIN escalation |->
     IF h \in DOMAIN hotspots /\ matchCounts(feed)[h] > 0
     THEN updateHotspotEscalation(escalation[h], matchCounts(feed)[h], TRUE,
                                  velocity(matchCounts(feed)[h]))
     ELSE escalation[h]]

\* the scorer's state after the hotspots.forEach of updateHotspotActivity: one
\* updateHotspotEscalation call per hotspot the map holds
EscalationAfter(feed) ==
  [h \in DOMAIN escalation |->
     IF h \in DOMAIN hotspots
     THEN updateHotspotEscalation(escalation[h], matchCounts(feed)[h],
                                  matchCounts(feed)[h] > 0, velocity(matchCounts(feed)[h]))
     ELSE escalation[h]]

ScorerIdle ==
  /\ news = <<>> /\ scorerCalls = <<>>
  /\ escalation = [h \in HotspotIds |-> [score |-> ScoreFloor, quiet |-> 0]]
  /\ zeroRun = [h \in HotspotIds |-> 0]

\* ------------------------------------------------------- highlighted assets
\* AssetType, the keys of highlightedAssets
AssetTypes == {"pipeline", "cable", "datacenter", "base", "nuclear"}

\* ids as a caller may pass them (an id need not be the id of any asset)
AssetIds == {"a", "b", "a|b"}

\* UTF-16 code unit of a character
CharCode(c) == CASE c = "a" -> 97 [] c = "b" -> 98 [] c = "|" -> 124

\* the order Array.prototype.sort() puts strings in: by code units
RECURSIVE StrLess(_, _)
StrLess(s, t) ==
  IF t = "" THEN FALSE
  ELSE IF s = "" THEN TRUE
  ELSE LET a == CharCode(SubSeq(s, 1, 1))
           b == CharCode(SubSeq(t, 1, 1))
       IN IF a # b THEN a < b
          ELSE StrLess(SubSeq(s, 2, Len(s)), SubSeq(t, 2, Len(t)))

RECURSIVE sort(_)
sort(set) ==
  IF set = {} THEN <<>>
  ELSE LET m == CHOOSE x \in set : \A y \in set : x = y \/ StrLess(x, y)
       IN <<m>> \o sort(set \ {m})

RECURSIVE join(_, _)
join(arr, sep) ==
  IF arr = <<>> THEN ""
  ELSE IF Len(arr) = 1 THEN arr[1]
  ELSE arr[1] \o sep \o join(Tail(arr), sep)

\* getSetSignature on the ids themselves: [...set].sort().join("|")
SignatureTable == [set \in SUBSET AssetIds |-> join(sort(set), "|")]

SetSignature(set) == SignatureTable[set]

\* a pipelines layer: getColor and getWidth give the override colour and
\* width to the ids that were highlighted when the layer was constructed
PathLayer(set) == [id |-> "pipelines-layer", highlighted |-> set]

\* createPipelinesLayer() as buildLayers() calls it: the layer returned, the
\* cache and the stored signature afterwards, and whether the layer returned
\* is the cached object
createPipelinesLayerOf(cached, lastSignature, highlightedPipelines) ==
  LET highlightSignature == SetSignature(highlightedPipelines)
  IN IF cached # <<>> /\ highlightSignature = lastSignature
     THEN [layer |-> cached[1], hit |-> TRUE, cache |-> cached, signature |-> lastSignature]
     ELSE [layer |-> PathLayer(highlightedPipelines), hit |-> FALSE,
           cache |-> <<PathLayer(highlightedPipelines)>>, signature |-> highlightSignature]

AssetStep(op, req) ==
  /\ last' = Last(op, 0, req, FALSE)
  /\ UNCHANGED <<dataVars, mapVars, overlayVars, timerVars, cacheVars>>
  /\ UNCHANGED <<variantVars, logVars, scorerVars, wellVars, macroVars, destroyed>>
  /\ NoZoomHist

\* the createPipelinesLayer() call of one buildLayers()
PipelinesBuild ==
  /\ layersOn["pipelines"]
  /\ LET r == createPipelinesLayerOf(layerCachePipelines, lastPipelineHighlightSignature,
                                     highlightedAssets["pipeline"])
     IN /\ pipelinesLayer' = <<[layer |-> r.layer, hit |-> r.hit]>>
        /\ layerCachePipelines' = r.cache
        /\ lastPipelineHighlightSignature' = r.signature
  /\ AssetStep("buildLayers", FALSE)
  /\ UNCHANGED <<highlightedAssets, assetFlashes, assetArg, schedVars, renderCalls, pausedCalls>>

\* the ids of the assets of type t in a list of RelatedAsset
IdsOfType(assets, t) == {assets[i].id : i \in {j \in 1..Len(assets) : assets[j].type = t}}

\* a highlightAssets that clears only the sets it is about to fill
setHighlights_KeepOthers(assets) ==
  highlightedAssets' =
    [t \in AssetTypes |->
       IF assets = <<>> \/ IdsOfType(assets[1], t) = {} THEN highlightedAssets[t]
       ELSE IdsOfType(assets[1], t)]

\* the body of highlightAssets(assets) before its render(): every set is
\* cleared, then each asset's id is added to the set of its type; <<>>
\* stands for null
setHighlights(assets) ==
  highlightedAssets' =
    [t \in AssetTypes |-> IF assets = <<>> THEN {} ELSE IdsOfType(assets[1], t)]

\* highlightAssets(assets) on the sets of every type
highlightAssetsOf(assets) ==
  /\ setHighlights(assets)
  /\ assetArg' = assets
  /\ PlainRender
  /\ AssetStep("highlightAssets", TRUE)
  /\ UNCHANGED <<layerCachePipelines, lastPipelineHighlightSignature, pipelinesLayer, assetFlashes>>

\* flashAssets(assetType, ids) on the sets of every type
flashAssetsOf(assetType, ids) ==
  /\ Len(assetFlashes) < MaxPending
  /\ highlightedAssets' = [highlightedAssets EXCEPT ![assetType] = @ \cup ids]
  /\ assetFlashes' = Append(assetFlashes, [type |-> assetType, ids |-> ids])
  /\ PlainRender
  /\ AssetStep("flashAssets", TRUE)
  /\ UNCHANGED <<layerCachePipelines, lastPipelineHighlightSignature, pipelinesLayer, assetArg>>

\* the timeout of a flashAssets call: every timeout is 3000 ms, so the
\* pending ones fire in the order of their calls
FlashExpiry ==
  /\ assetFlashes # <<>>
  /\ highlightedAssets' = [highlightedAssets EXCEPT ![assetFlashes[1].type] = @ \ assetFlashes[1].ids]
  /\ assetFlashes' = Tail(assetFlashes)
  /\ PlainRender
  /\ AssetStep("flashExpiry", TRUE)
  /\ UNCHANGED <<layerCachePipelines, lastPipelineHighlightSignature, pipelinesLayer, assetArg>>

AssetsIdle ==
  /\ highlightedAssets = [t \in AssetTypes |-> {}]
  /\ layerCachePipelines = <<>> /\ lastPipelineHighlightSignature = ""
  /\ pipelinesLayer = <<>> /\ assetFlashes = <<>> /\ assetArg = <<>>

\* ------------------------------------------------------------ well permits
\* a WellPermit as far as fetchWellPermits reads it
Permits == [lat : 0..1, lng : 0..1]

HasPosition(w) == w.lat # 0 /\ w.lng # 0

\* wells.filter((w) => w.lat !== 0 && w.lng !== 0)
RECURSIVE filter(_)
filter(arr) ==
  IF arr = <<>> THEN <<>>
  ELSE (IF HasPosition(arr[1]) THEN <<arr[1]>> ELSE <<>>) \o filter(Tail(arr))

\* what the request of one call comes to: fetch() throws, the response is not
\* OK, res.json() throws, or the body parses; wells is <<>> when the body
\* has no wells field, else <<the array>>
Responses ==
  {[kind |-> k, wells |-> <<>>] : k \in {"throw", "notok", "badjson", "ok"}}
  \cup {[kind |-> "ok", wells |-> <<w>>] : w \in UNION {[1..n -> Permits] : n \in 0..MaxWells}}

WellStep(op) ==
  /\ last' = Last(op, 0, FALSE, FALSE)
  /\ UNCHANGED <<dataVars, mapVars, overlayVars, schedVars, timerVars, cacheVars>>
  /\ UNCHANGED <<variantVars, logVars, scorerVars, assetVars, macroVars, destroyed>>
  /\ UNCHANGED <<renderCalls, pausedCalls, sinceCross, heavyRuns, heavyLevel>>

\* the start of fetchWellPermits(): the cached list while it is fresh, else
\* a request is made and the call waits for it
fetchWellPermits ==
  /\ wellRequests < MaxRequests
  /\ IF cachedWells # <<>> /\ now - cacheTimestamp < CACHE_TTL
     THEN /\ wellReturn' = <<[value |-> cachedWells[1], rejected |-> FALSE,
                             res |-> [kind |-> "cache", wells |-> <<>>]]>>
          /\ UNCHANGED <<wellCalls, wellRequests>>
     ELSE /\ wellCalls' = wellCalls + 1
          /\ wellRequests' = wellRequests + 1
          /\ UNCHANGED wellReturn
  /\ UNCHANGED <<cachedWells, cacheTimestamp, now, lastFetched>>
  /\ WellStep("fetchWellPermits")

\* a fetchWellPermits without its try/catch
Settle_NoCatch(res) ==
  IF res.kind \in {"throw", "badjson"}
  THEN [value |-> <<>>, rejected |-> TRUE, cached |-> cachedWells, timestamp |-> cacheTimestamp]
  ELSE IF res.kind = "notok"
  THEN [value |-> IF cachedWells # <<>> THEN cachedWells[1] ELSE <<>>, rejected |-> FALSE,
        cached |-> cachedWells, timestamp |-> cacheTimestamp]
  ELSE LET wells == filter(IF res.wells # <<>> THEN res.wells[1] ELSE <<>>)
       IN [value |-> wells, rejected |-> FALSE, cached |-> <<wells>>, timestamp |-> now]

\* a fetchWellPermits that caches the unfiltered list
Settle_Unfiltered(res) ==
  IF res.kind # "ok"
  THEN [value |-> IF cachedWells # <<>> THEN cachedWells[1] ELSE <<>>, rejected |-> FALSE,
        cached |-> cachedWells, timestamp |-> cacheTimestamp]
  ELSE LET wells == IF res.wells # <<>> THEN res.wells[1] ELSE <<>>
       IN [value |-> filter(wells), rejected |-> FALSE,
           cached |-> <<wells>>, timestamp |-> now]

\* the rest of fetchWellPermits() once its request has come to res: what the
\* call returns, and the cache and its timestamp afterwards
Settle(res) ==
  IF res.kind # "ok"
  THEN [value |-> IF cachedWells # <<>> THEN cachedWells[1] ELSE <<>>, rejected |-> FALSE,
        cached |-> cachedWells, timestamp |-> cacheTimestamp]
  ELSE LET wells == filter(IF res.wells # <<>> THEN res.wells[1] ELSE <<>>)
       IN [value |-> wells, rejected |-> FALSE, cached |-> <<wells>>, timestamp |-> now]

WellSettle(res) ==
  /\ wellCalls > 0
  /\ wellCalls' = wellCalls - 1
  /\ wellReturn' = <<[value |-> Settle(res).value, rejected |-> Settle(res).rejected, res |-> res]>>
  /\ cachedWells' = Settle(res).cached
  /\ cacheTimestamp' = Settle(res).timestamp
  /\ lastFetched' = IF res.kind = "ok"
                    THEN <<[wells |-> Settle(res).value, at |-> now]>>
                    ELSE lastFetched
  /\ UNCHANGED <<now, wellRequests>>
  /\ WellStep("settle")

\* Date.now() moves on
WellClock ==
  /\ now < MaxNow
  /\ now' = now + 1
  /\ UNCHANGED <<cachedWells, cacheTimestamp, wellCalls, wellReturn, wellRequests, lastFetched>>
  /\ WellStep("clock")

WellsIdle ==
  /\ cachedWells = <<>> /\ cacheTimestamp = 0 /\ now = 0
  /\ wellCalls = 0 /\ wellReturn = <<>> /\ wellRequests = 0 /\ lastFetched = <<>>

\* ----------------------------------------------------------- macro signals
\* a rate of change as rateOfChange() returns it, in percent; <<>> is null
RocValues == {<<>>, <<-6>>, <<-2>>, <<0>>}

RocInputs == [jpyRoc30 : RocValues, xleReturn5 : RocValues, qqqReturn5 : RocValues,
              qqqRoc20 : RocValues, xlpRoc20 : RocValues]

liquidityStatus(r) ==
  IF r.jpyRoc30 # <<>> THEN (IF r.jpyRoc30[1] < -2 THEN "SQUEEZE" ELSE "NORMAL") ELSE "UNKNOWN"

flowStatus(r) ==
  IF r.xleReturn5 # <<>> /\ r.qqqReturn5 # <<>>
  THEN (IF Abs(r.xleReturn5[1] - r.qqqReturn5[1]) > 5 THEN "PASSIVE GAP" ELSE "ALIGNED")
  ELSE "UNKNOWN"

regimeStatus(r) ==
  IF r.qqqRoc20 # <<>> /\ r.xlpRoc20 # <<>>
  THEN (IF r.qqqRoc20[1] > r.xlpRoc20[1] THEN "RISK-ON" ELSE "DEFENSIVE")
  ELSE "UNKNOWN"

signals(r) ==
  <<[name |-> "Liquidity", status |-> liquidityStatus(r), bullish |-> liquidityStatus(r) = "NORMAL"],
    [name |-> "Flow Structure", status |-> flowStatus(r), bullish |-> flowStatus(r) = "ALIGNED"],
    [name |-> "Macro Regime", status |-> regimeStatus(r), bullish |-> regimeStatus(r) = "RISK-ON"]>>

\* a tally that counts the bullish signals only
Tally_BullishOnly(sigs) ==
  [totalCount |-> Cardinality({i \in 1..Len(sigs) : sigs[i].status # "UNKNOWN" /\ sigs[i].bullish}),
   bullishCount |-> Cardinality({i \in 1..Len(sigs) : sigs[i].status # "UNKNOWN" /\ sigs[i].bullish})]

\* the loop over signals: totalCount and bullishCount
Tally(sigs) ==
  [totalCount |-> Cardinality({i \in 1..Len(sigs) : sigs[i].status # "UNKNOWN"}),
   bullishCount |-> Cardinality({i \in 1..Len(sigs) : sigs[i].status # "UNKNOWN" /\ sigs[i].bullish})]

\* bullishCount / totalCount >= 0.57, in hundredths
verdict(bullishCount, totalCount) ==
  IF totalCount = 0 THEN "UNKNOWN"
  ELSE IF 100 * bullishCount >= 57 * totalCount THEN "BUY"
  ELSE "CASH"

\* the handler of /api/opa-chart from the rates of change on
macroHandler(r) ==
  /\ rocs' = <<r>>
  /\ macroResult' = <<[signals |-> signals(r),
                      bullishCount |-> Tally(signals(r)).bullishCount,
                      totalCount |-> Tally(signals(r)).totalCount,
                      verdict |-> verdict(Tally(signals(r)).bullishCount, Tally(signals(r)).totalCount)]>>
  /\ last' = Last("macro", 0, FALSE, FALSE)
  /\ UNCHANGED <<dataVars, mapVars, overlayVars, schedVars, timerVars, cacheVars>>
  /\ UNCHANGED <<variantVars, logVars, scorerVars, assetVars, wellVars, destroyed>>
  /\ UNCHANGED <<renderCalls, pausedCalls, sinceCross, heavyRuns, heavyLevel>>

MacroIdle == rocs = <<>> /\ macroResult = <<>>

ExtraIdle == AssetsIdle /\ WellsIdle /\ MacroIdle /\ destroyed = FALSE

AuxIdle == VariantIdle /\ LogIdle /\ ScorerIdle /\ ExtraIdle

\* ------------------------------------------------------------ construction
InitOver(ids, l, z2) ==
  /\ layersOn = l
  /\ data = [d \in Domains |-> 0]
  /\ protests = 0
  /\ hotspots = [h \in ids |-> [level |-> "low", hasBreaking |-> FALSE, escalationScore |-> 0]]
  /\ highlightedPipes = {}
  /\ mapZoom2 = z2 /\ bbox = 0 /\ moving = FALSE /\ zoomed = FALSE
  /\ deckOverlay = FALSE /\ deckLayers = <<>> /\ fromCache = {} /\ PickIdle
  /\ renderScheduled = FALSE /\ renderPaused = FALSE /\ renderPending = FALSE
  /\ rafPending = FALSE /\ rafQueue = <<>>
  /\ debounceTimers = {} /\ moveTimer = -1 /\ pulseTimer = -1 /\ pulseIntervals = 0
  /\ flashTimers = <<>>
  /\ lastZoomThreshold = InitialThreshold /\ lastSCZoom = NoSCZoom
  /\ protestSC = -1 /\ protestClusters = <<>> /\ pipeCache = <<-1>>
  /\ last = Last("new", 0, FALSE, FALSE)
  /\ renderCalls = 0 /\ pausedCalls = 0 /\ sinceCross = -1 /\ heavyRuns = 0 /\ heavyLevel = -1

InitMap(l, z2) == InitOver(HotspotIds, l, z2)

InitWith(l, z2) == InitMap(l, z2) /\ AuxIdle

\* the map's "load" event: initDeck() builds the first layer list, then render()
Load ==
  /\ ~deckOverlay
  /\ deckOverlay' = TRUE
  /\ BuildAndSet
  /\ PlainRender
  /\ last' = Last("load", 1, TRUE, FALSE)
  /\ UNCHANGED <<dataVars, mapVars, timerVars, lastZoomThreshold, protestSC>>
  /\ NoZoomHist

\* public render()
Render ==
  /\ PlainRender
  /\ last' = Last("render", 0, TRUE, FALSE)
  /\ UNCHANGED <<dataVars, mapVars, timerVars>>
  /\ NoBuild /\ NoZoomHist

\* setRenderPaused that leaves renderPending set when it unpauses
setRenderPaused_KeepPending(paused) ==
  /\ renderPaused' = paused
  /\ IF ~paused /\ renderPending
     THEN render(FALSE, TRUE)
     ELSE UNCHANGED <<renderPending, renderScheduled, rafQueue, renderCalls>>
  /\ pausedCalls' = IF paused THEN pausedCalls ELSE 0
  /\ last' = [Last(IF paused THEN "pause" ELSE "unpause", 0, ~paused /\ renderPending, FALSE)
                EXCEPT !.calls = pausedCalls]
  /\ UNCHANGED <<dataVars, mapVars, timerVars, rafPending>>
  /\ NoBuild /\ NoZoomHist

setRenderPaused(paused) ==
  /\ renderPaused' = paused
  /\ IF ~paused /\ renderPending
     THEN render(FALSE, FALSE)
     ELSE UNCHANGED <<renderPending, renderScheduled, rafQueue, renderCalls>>
  /\ pausedCalls' = IF paused THEN pausedCalls ELSE 0
  /\ last' = [Last(IF paused THEN "pause" ELSE "unpause", 0, ~paused /\ renderPending, FALSE)
                EXCEPT !.calls = pausedCalls]
  /\ UNCHANGED <<dataVars, mapVars, timerVars, rafPending>>
  /\ NoBuild /\ NoZoomHist

\* the buildLayers() calls of the queued callbacks of one kind: updateLayers()
\* and the rafUpdateLayers callback build only when the overlay exists
FrameBuilds(name) == IF deckOverlay THEN Count(name, rafQueue) ELSE 0

\* one animation frame: every queued callback runs, in the order queued
Frame ==
  /\ rafQueue # <<>>
  /\ rafQueue' = <<>>
  /\ renderScheduled' = IF Count("render", rafQueue) > 0 THEN FALSE ELSE renderScheduled
  /\ rafPending' = IF Count("raf", rafQueue) > 0 THEN FALSE ELSE rafPending
  /\ renderCalls' = IF Count("render", rafQueue) > 0 THEN 0 ELSE renderCalls
  /\ IF deckOverlay
     THEN BuildTimes(FrameBuilds("render") + FrameBuilds("raf"))
          /\ UNCHANGED <<deckOverlay, lastZoomThreshold, protestSC>>
     ELSE NoBuild
  /\ last' = [Last("frame", FrameBuilds("render") + FrameBuilds("raf"), FALSE, FALSE)
                EXCEPT !.rbuilds = FrameBuilds("render"), !.ran = rafQueue, !.calls = renderCalls]
  /\ UNCHANGED <<dataVars, mapVars, timerVars, renderPaused, renderPending, pausedCalls>>
  /\ NoZoomHist

\* ----------------------------------------------------------------- setters
\* every handler below that only mutates data and calls render()
Mutate(op) ==
  /\ PlainRender
  /\ last' = Last(op, 0, TRUE, FALSE)
  /\ UNCHANGED <<mapVars, timerVars>>
  /\ NoBuild /\ NoZoomHist

setTimeRange ==
  /\ Mutate("setTimeRange")
  /\ UNCHANGED dataVars

setLayers(layers) ==
  /\ layersOn' = layers
  /\ Mutate("setLayers")
  /\ UNCHANGED <<data, protests, hotspots, highlightedPipes>>

enableLayer(layer) ==
  /\ IF ~layersOn[layer]
     THEN /\ layersOn' = [layersOn EXCEPT ![layer] = TRUE]
          /\ PlainRender
     ELSE UNCHANGED <<layersOn, schedVars, renderCalls, pausedCalls>>
  /\ last' = Last("enableLayer", 0, ~layersOn[layer], FALSE)
  /\ UNCHANGED <<data, protests, hotspots, highlightedPipes, mapVars, timerVars>>
  /\ NoBuild /\ NoZoomHist

\* toggleLayer that forgets to call render()
toggleLayer_NoRender(layer) ==
  /\ layersOn' = [layersOn EXCEPT ![layer] = ~layersOn[layer]]
  /\ last' = Last("toggleLayer", 0, FALSE, FALSE)
  /\ UNCHANGED <<data, protests, hotspots, highlightedPipes, mapVars, timerVars>>
  /\ UNCHANGED <<schedVars, renderCalls, pausedCalls>>
  /\ NoBuild /\ NoZoomHist

toggleLayer(layer) ==
  /\ layersOn' = [layersOn EXCEPT ![layer] = ~layersOn[layer]]
  /\ Mutate("toggleLayer")
  /\ UNCHANGED <<data, protests, hotspots, highlightedPipes>>

SetCollections(op, new) ==
  /\ data' = new
  /\ Mutate(op)
  /\ UNCHANGED <<layersOn, protests, hotspots, highlightedPipes>>

setEarthquakes(v) == SetCollections("setEarthquakes", [data EXCEPT !["earthquakes"] = v])

setWeatherAlerts(v) == SetCollections("setWeatherAlerts", [data EXCEPT !["weatherAlerts"] = v])

setOutages(v) == SetCollections("setOutages", [data EXCEPT !["outages"] = v])

setAisData(disruptions, density) ==
  SetCollections("setAisData", [data EXCEPT !["aisDisruptions"] = disruptions, !["aisDensity"] = density])

setMilitaryFlights(flights, clusters) ==
  SetCollections("setMilitaryFlights", [data EXCEPT !["militaryFlights"] = flights, !["militaryFlightClusters"] = clusters])

setMilitaryVessels(vessels, clusters) ==
  SetCollections("setMilitaryVessels", [data EXCEPT !["militaryVessels"] = vessels, !["militaryVesselClusters"] = clusters])

setNaturalEvents(v) == SetCollections("setNaturalEvents", [data EXCEPT !["naturalEvents"] = v])

setFires(v) == SetCollections("setFires", [data EXCEPT !["firmsFireData"] = v])

\* a start that does not look at newsPulseIntervalId
StartPulseIfNeeded_NoGuard ==
  IF needsPulseAnimation'
  THEN pulseTimer' = PulseUnits /\ pulseIntervals' = pulseIntervals + 1
  ELSE UNCHANGED pulseVars

\* startPulseAnimation when the handler finds needsPulseAnimation() true and
\* no interval id stored: setInterval creates one more timer
StartPulseIfNeeded ==
  IF needsPulseAnimation' /\ pulseTimer = -1
  THEN pulseTimer' = PulseUnits /\ pulseIntervals' = pulseIntervals + 1
  ELSE UNCHANGED pulseVars

\* setProtests: the index is rebuilt and the cluster cache key reset; the
\* clusters themselves stay as they are until the next updateClusterData
setProtests(events) ==
  /\ protests' = events
  /\ protestSC' = events
  /\ lastSCZoom' = NoSCZoom
  /\ PlainRender
  /\ UNCHANGED <<layersOn, data, hotspots, highlightedPipes, protestClusters>>
  /\ StartPulseIfNeeded
  /\ last' = Last("setProtests", 0, TRUE, FALSE)
  /\ UNCHANGED <<mapVars, deckVars, debounceTimers, moveTimer, flashTimers, lastZoomThreshold, pipeCache>>
  /\ NoZoomHist

\* the map's side of updateHotspotActivity: matched is the set of hotspots
\* whose keywords occur in a title of the last two hours
HotspotBreaking(matched) ==
  /\ hotspots' = [h \in DOMAIN hotspots |-> [hotspots[h] EXCEPT !.hasBreaking = (h \in matched)]]
  /\ PlainRender
  /\ UNCHANGED <<layersOn, data, protests, highlightedPipes>>
  /\ last' = Last("updateHotspotActivity", 0, TRUE, FALSE)
  /\ UNCHANGED <<mapVars, debounceTimers, moveTimer, flashTimers>>
  /\ UNCHANGED <<overlayVars, cacheVars>> /\ NoZoomHist
  /\ StartPulseIfNeeded

\* updateHotspotActivity with the scorer and the stored news left out
updateHotspotActivityMatched(matched) ==
  /\ HotspotBreaking(matched)
  /\ UNCHANGED auxVars

\* updateHotspotActivity(news): the feed is stored, every hotspot gets its
\* flag and one scorer call
updateHotspotActivity(feed) ==
  /\ news' = feed
  /\ HotspotBreaking({h \in DOMAIN hotspots : matchCounts(feed)[h] > 0})
  /\ scorerCalls' = [h \in DOMAIN hotspots |-> ScorerCall(h, matchCounts(feed)[h])]
  /\ escalation' = EscalationAfter(feed)
  /\ zeroRun' = [h \in DOMAIN zeroRun |->
                   IF scorerCalls'[h].matchCount = 0 THEN Min(zeroRun[h] + 1, SettleCycles) ELSE 0]
  /\ UNCHANGED <<variantVars, logVars, extraVars>>

setHotspotLevels(levels) ==
  /\ hotspots' = [h \in DOMAIN hotspots |-> [hotspots[h] EXCEPT !.level = levels[h]]]
  /\ Mutate("setHotspotLevels")
  /\ UNCHANGED <<layersOn, data, protests, highlightedPipes>>

\* highlightAssets: the pipeline ids among the given assets
highlightAssets(pipes) ==
  /\ highlightedPipes' = pipes
  /\ Mutate("highlightAssets")
  /\ UNCHANGED <<layersOn, data, protests, hotspots>>

\* a flashAssets whose timeout does not render
FlashTimeout_NoRender ==
  /\ \E i \in 1..Len(flashTimers) : flashTimers[i].due = 0
  /\ LET i == CHOOSE j \in 1..Len(flashTimers) :
                /\ flashTimers[j].due = 0
                /\ \A k \in 1..(j - 1) : flashTimers[k].due # 0
     IN /\ highlightedPipes' = highlightedPipes \ flashTimers[i].ids
        /\ flashTimers' = SubSeq(flashTimers, 1, i - 1) \o SubSeq(flashTimers, i + 1, Len(flashTimers))
  /\ last' = Last("flashTimeout", 0, FALSE, FALSE)
  /\ UNCHANGED <<layersOn, data, protests, hotspots, mapVars, schedVars, renderCalls, pausedCalls>>
  /\ UNCHANGED <<debounceTimers, moveTimer, pulseVars>>
  /\ NoBuild /\ NoZoomHist

\* flashAssets(assetType, ids) for the pipeline type: the ids are added to
\* the highlighted set and a 3000 ms timeout is set
flashAssets(ids) ==
  /\ Len(flashTimers) < MaxFlashes
  /\ highlightedPipes' = highlightedPipes \cup ids
  /\ flashTimers' = Append(flashTimers, [due |-> FlashUnits, age |-> 0, ids |-> ids])
  /\ PlainRender
  /\ last' = Last("flashAssets", 0, TRUE, FALSE)
  /\ UNCHANGED <<layersOn, data, protests, hotspots, mapVars, debounceTimers, moveTimer, pulseVars>>
  /\ NoBuild /\ NoZoomHist

\* the timeout of the oldest flashAssets call that is due: its ids are
\* deleted from the highlighted set, then render()
FlashTimeout ==
  /\ \E i \in 1..Len(flashTimers) : flashTimers[i].due = 0
  /\ LET i == CHOOSE j \in 1..Len(flashTimers) :
                /\ flashTimers[j].due = 0
                /\ \A k \in 1..(j - 1) : flashTimers[k].due # 0
     IN /\ highlightedPipes' = highlightedPipes \ flashTimers[i].ids
        /\ flashTimers' = SubSeq(flashTimers, 1, i - 1) \o SubSeq(flashTimers, i + 1, Len(flashTimers))
  /\ PlainRender
  /\ last' = Last("flashTimeout", 0, TRUE, FALSE)
  /\ UNCHANGED <<layersOn, data, protests, hotspots, mapVars, debounceTimers, moveTimer, pulseVars>>
  /\ NoBuild /\ NoZoomHist

\* -------------------------------------------------------------- map events
\* zoomend handler for a map zoom of z2 half levels
\* a threshold test that needs a difference of two levels
thresholdCrossed_Strict(z2) == Abs(Floor2(ZoomOr2(z2)) - lastZoomThreshold) > 1

thresholdCrossed(z2) == Abs(Floor2(ZoomOr2(z2)) - lastZoomThreshold) >= 1

\* a zoomend handler whose rebuilds queue up instead of replacing each other
zoomend_Queue(z2) ==
  IF thresholdCrossed(z2)
  THEN /\ lastZoomThreshold' = Floor2(ZoomOr2(z2))
       /\ debounceTimers' = debounceTimers \cup {DebounceUnits}
       /\ sinceCross' = 0 /\ heavyRuns' = 0
  ELSE UNCHANGED <<lastZoomThreshold, debounceTimers, sinceCross, heavyRuns>>

zoomend(z2) ==
  IF thresholdCrossed(z2)
  THEN /\ lastZoomThreshold' = Floor2(ZoomOr2(z2))
       /\ debounceTimers' = debounce(debounceTimers)
       /\ sinceCross' = 0 /\ heavyRuns' = 0
  ELSE UNCHANGED <<lastZoomThreshold, debounceTimers, sinceCross, heavyRuns>>

NoZoomEnd == UNCHANGED <<lastZoomThreshold, debounceTimers, sinceCross, heavyRuns>>

\* a gesture or animation starts: movestart clears the move timeout
MoveStart ==
  /\ ~moving
  /\ moving' = TRUE /\ zoomed' = FALSE
  /\ moveTimer' = IF deckOverlay THEN -1 ELSE moveTimer
  /\ last' = Last("movestart", 0, FALSE, FALSE)
  /\ UNCHANGED <<dataVars, mapZoom2, bbox, deckVars, schedVars, renderCalls, pausedCalls, cacheVars>>
  /\ UNCHANGED <<debounceTimers, clockVars, sinceCross, heavyRuns, heavyLevel>>

\* the viewport pans to b: the move handler re-arms the 100 ms timeout
MapMove(b) ==
  /\ moving /\ b # bbox
  /\ bbox' = b
  /\ moveTimer' = IF deckOverlay THEN MoveUnits ELSE moveTimer
  /\ last' = Last("move", 0, FALSE, FALSE)
  /\ UNCHANGED <<dataVars, mapZoom2, moving, zoomed, deckVars, schedVars, renderCalls, pausedCalls, cacheVars>>
  /\ UNCHANGED <<debounceTimers, clockVars, sinceCross, heavyRuns, heavyLevel>>

\* the zoom changes to z2 (viewport b): the move and zoom handlers both run
MapZoom(z2, b) ==
  /\ moving /\ z2 # mapZoom2
  /\ mapZoom2' = z2 /\ bbox' = b /\ zoomed' = TRUE
  /\ moveTimer' = IF deckOverlay THEN MoveUnits ELSE moveTimer
  /\ last' = Last("zoom", 0, FALSE, FALSE)
  /\ UNCHANGED <<dataVars, moving, deckVars, schedVars, renderCalls, pausedCalls, cacheVars>>
  /\ UNCHANGED <<debounceTimers, clockVars, sinceCross, heavyRuns, heavyLevel>>

\* a moveend handler that leaves the cluster cache key alone
MoveEnd_KeepClusters ==
  /\ moving
  /\ moving' = FALSE /\ zoomed' = FALSE
  /\ IF deckOverlay
     THEN /\ IF zoomed THEN zoomend(mapZoom2) ELSE NoZoomEnd
          /\ UNCHANGED lastSCZoom
          /\ rafUpdateLayers
          /\ last' = [Last("moveend", 0, FALSE, zoomed /\ thresholdCrossed(mapZoom2))
                        EXCEPT !.zend = zoomed]
     ELSE /\ NoZoomEnd
          /\ UNCHANGED <<lastSCZoom, schedVars, renderCalls, pausedCalls>>
          /\ last' = Last("moveend", 0, FALSE, FALSE)
  /\ UNCHANGED <<dataVars, mapZoom2, bbox, deckVars, moveTimer, clockVars>>
  /\ UNCHANGED <<protestSC, protestClusters, pipeCache, heavyLevel>>

\* the gesture ends: zoomend (when the zoom changed), then moveend
MoveEnd ==
  /\ moving
  /\ moving' = FALSE /\ zoomed' = FALSE
  /\ IF deckOverlay
     THEN /\ IF zoomed THEN zoomend(mapZoom2) ELSE NoZoomEnd
          /\ lastSCZoom' = NoSCZoom
          /\ rafUpdateLayers
          /\ last' = [Last("moveend", 0, FALSE, zoomed /\ thresholdCrossed(mapZoom2))
                        EXCEPT !.zend = zoomed]
     ELSE /\ NoZoomEnd
          /\ UNCHANGED <<lastSCZoom, schedVars, renderCalls, pausedCalls>>
          /\ last' = Last("moveend", 0, FALSE, FALSE)
  /\ UNCHANGED <<dataVars, mapZoom2, bbox, deckVars, moveTimer, clockVars>>
  /\ UNCHANGED <<protestSC, protestClusters, pipeCache, heavyLevel>>

\* setZoom(z): the map jumps; movestart, move, zoom, zoomend and moveend are
\* fired before it returns (the zoom events only when the zoom changes)
setZoom(z2, b) ==
  /\ mapZoom2' = z2 /\ bbox' = b
  /\ IF deckOverlay
     THEN /\ moveTimer' = MoveUnits
          /\ IF z2 # mapZoom2 THEN zoomend(z2) ELSE NoZoomEnd
          /\ lastSCZoom' = NoSCZoom
          /\ rafUpdateLayers
          /\ last' = [Last("setZoom", 0, FALSE, z2 # mapZoom2 /\ thresholdCrossed(z2))
                        EXCEPT !.zend = (z2 # mapZoom2)]
     ELSE /\ NoZoomEnd
          /\ UNCHANGED <<moveTimer, lastSCZoom, schedVars, renderCalls, pausedCalls>>
          /\ last' = Last("setZoom", 0, FALSE, FALSE)
  /\ UNCHANGED <<dataVars, moving, zoomed, deckVars, clockVars>>
  /\ UNCHANGED <<protestSC, protestClusters, pipeCache, heavyLevel>>

\* setView(view): flyTo starts an animation (movestart) and returns
setView ==
  /\ moving' = TRUE
  /\ moveTimer' = IF deckOverlay THEN -1 ELSE moveTimer
  /\ last' = Last("setView", 0, FALSE, FALSE)
  /\ UNCHANGED <<dataVars, mapZoom2, bbox, zoomed, deckVars, schedVars, renderCalls, pausedCalls, cacheVars>>
  /\ UNCHANGED <<debounceTimers, clockVars, sinceCross, heavyRuns, heavyLevel>>

\* ------------------------------------------------------------------ timers
Dec(t) == IF t > 0 THEN t - 1 ELSE t

\* 50 ms pass; a timer that is due fires before time moves on
Tick ==
  /\ 0 \notin debounceTimers /\ moveTimer # 0 /\ pulseTimer # 0
  /\ \A i \in 1..Len(flashTimers) : flashTimers[i].due # 0
  /\ \/ debounceTimers # {} \/ moveTimer > 0 \/ pulseTimer > 0 \/ flashTimers # <<>>
     \/ (sinceCross >= 0 /\ sinceCross <= DebounceUnits)
  /\ debounceTimers' = {t - 1 : t \in debounceTimers}
  /\ moveTimer' = Dec(moveTimer)
  /\ pulseTimer' = Dec(pulseTimer) /\ UNCHANGED pulseIntervals
  /\ flashTimers' = [i \in 1..Len(flashTimers) |->
                       [flashTimers[i] EXCEPT !.due = @ - 1, !.age = @ + 1]]
  /\ sinceCross' = IF sinceCross >= 0 THEN Min(sinceCross + 1, DebounceUnits + 1) ELSE sinceCross
  /\ last' = Last("tick", 0, FALSE, FALSE)
  /\ UNCHANGED <<dataVars, mapVars, deckVars, schedVars, cacheVars, renderCalls, pausedCalls, heavyRuns, heavyLevel>>

\* the 100 ms timeout of the move and zoom handlers
MoveTimeout ==
  /\ moveTimer = 0
  /\ moveTimer' = -1
  /\ lastSCZoom' = NoSCZoom
  /\ rafUpdateLayers
  /\ last' = Last("moveTimeout", 0, FALSE, FALSE)
  /\ UNCHANGED <<dataVars, mapVars, deckVars, debounceTimers, clockVars>>
  /\ UNCHANGED <<lastZoomThreshold, protestSC, protestClusters, pipeCache>>
  /\ NoZoomHist

\* the debounced callback: resize, then buildLayers() straight to the renderer
DebouncedRebuild ==
  /\ 0 \in debounceTimers
  /\ debounceTimers' = debounceTimers \ {0}
  /\ BuildAndSet
  /\ heavyRuns' = Min(heavyRuns + 1, 2) /\ heavyLevel' = Floor2(mapZoom2)
  /\ last' = Last("debounced", 1, FALSE, FALSE)
  /\ UNCHANGED <<dataVars, mapVars, deckOverlay, schedVars, renderCalls, pausedCalls, moveTimer, clockVars>>
  /\ UNCHANGED <<lastZoomThreshold, protestSC, sinceCross>>

\* one tick of the 250 ms pulse interval
PulseTick ==
  /\ pulseTimer = 0
  /\ IF needsPulseAnimation
     THEN pulseTimer' = PulseUnits /\ UNCHANGED pulseIntervals
     ELSE pulseTimer' = -1 /\ pulseIntervals' = pulseIntervals - 1
  /\ rafUpdateLayers
  /\ last' = Last("pulse", 0, FALSE, FALSE)
  /\ UNCHANGED <<dataVars, mapVars, debounceTimers, moveTimer, flashTimers>>
  /\ NoBuild /\ NoZoomHist

\* everything the picking handlers leave alone
nonPickVars == <<dataVars, mapVars, deckOverlay, deckLayers, fromCache, schedVars,
                 timerVars, cacheVars, renderCalls, pausedCalls, sinceCross, heavyRuns, heavyLevel,
                 auxVars>>

setOnCountryClick ==
  /\ onCountryClick' = TRUE
  /\ last' = Last("setOnCountryClick", 0, FALSE, FALSE)
  /\ UNCHANGED <<nonPickVars, onHotspotClick, pick, tooltip, popup, calls>>

setOnHotspotClick ==
  /\ onHotspotClick' = TRUE
  /\ last' = Last("setOnHotspotClick", 0, FALSE, FALSE)
  /\ UNCHANGED <<nonPickVars, onCountryClick, pick, tooltip, popup, calls>>

\* the renderer asks for the tooltip of the pick under the pointer
Hover(info) ==
  /\ pick' = info
  /\ tooltip' = getTooltip(info)
  /\ last' = Last("getTooltip", 0, FALSE, FALSE)
  /\ UNCHANGED <<nonPickVars, onCountryClick, onHotspotClick, popup, calls>>

\* the renderer reports a click: calls holds what this handleClick invoked
Click(info) ==
  /\ pick' = info
  /\ calls' = handleClick(info)
  /\ popup' = PopupAfter(handleClick(info), popup)
  /\ last' = Last("handleClick", 0, FALSE, FALSE)
  /\ UNCHANGED <<nonPickVars, onCountryClick, onHotspotClick, tooltip>>

\* ---------------------------------------------------------- specifications
\* the layer keys the scheduler specification toggles: the first NumKeys of
SchedKeys == <<"natural", "pipelines", "protests", "hotspots", "conflicts", "bases",
               "nuclear", "fires", "weather", "outages", "ais", "military",
               "waterways", "economic", "minerals">>

Toggled == {SchedKeys[i] : i \in 1..Min(NumKeys, Len(SchedKeys))}

AllOff == [k \in KeySet |-> FALSE]

LayerMaps(keys) == {[k \in KeySet |-> k \in on] : on \in SUBSET keys}

Init == InitWith(AllOff, 3)

\* --- Spec: render(), pause and the mutators
Next ==
  \/ Load
  \/ Render
  \/ \E p \in BOOLEAN : setRenderPaused(p)
  \/ Frame
  \/ \E k \in Toggled : toggleLayer(k)
  \/ \E v \in DataVals : setEarthquakes(v)

Spec == Init /\ [][Next]_vars

\* --- SpecSched: every kind of trigger of a rebuild
Viewport ==
  \/ MoveStart
  \/ \E b \in Boxes : MapMove(b)
  \/ \E z \in GestureZooms, b \in Boxes : MapZoom(z, b)
  \/ MoveEnd

Timers ==
  \/ Tick
  \/ MoveTimeout
  \/ DebouncedRebuild
  \/ PulseTick

NextSched ==
  \/ Load
  \/ Render
  \/ \E p \in BOOLEAN : setRenderPaused(p)
  \/ Frame
  \/ \E m \in SUBSET HotspotIds : updateHotspotActivityMatched(m)
  \/ \E z \in GestureZooms : setZoom(z, bbox)
  \/ Timers

SpecSched == Init /\ [][NextSched]_vars

\* --- SpecZoom: zoom gestures and the debounced rebuild
NextZoom ==
  \/ Load
  \/ Viewport
  \/ \E z \in GestureZooms, b \in Boxes : setZoom(z, b)
  \/ Tick
  \/ MoveTimeout
  \/ DebouncedRebuild
  \/ Frame

SpecZoom == Init /\ [][NextZoom]_vars

\* --- SpecLive: the setters between a render() and its frame; the map is
\* zoomed between 1.5 and 2
LiveKeys == {SchedKeys[i] : i \in 1..Min(NumKeys + 1, Len(SchedKeys))}

LiveZooms == {3, 4}

NextLive ==
  \/ Load
  \/ Frame
  \/ \E k \in LiveKeys : toggleLayer(k)
  \/ \E v \in DataVals : setEarthquakes(v)
  \/ \E p \in {0, 1} : setProtests(p)
  \/ \E P \in SUBSET PipeIds : highlightAssets(P)
  \/ \E z \in LiveZooms : setZoom(z, bbox)

SpecLive == Init /\ [][NextLive]_vars

\* --- SpecMut: every public mutator; at most MaxFilled collections are
\* non-empty at a time
Small(d) == NonEmptyCount(d) + (IF protests' # 0 THEN 1 ELSE 0)
              + Cardinality(highlightedPipes') <= MaxFilled

NextMut ==
  \/ Load
  \/ Frame
  \/ \E p \in BOOLEAN : setRenderPaused(p)
  \/ \E l \in LayerMaps(Toggled) : setLayers(l)
  \/ \E k \in Toggled : enableLayer(k)
  \/ \E k \in Toggled : toggleLayer(k)
  \/ setZoom(ZoomFallback2, bbox)
  \/ setView
  \/ setTimeRange
  \/ \E v \in DataVals : setEarthquakes(v) /\ Small(data')
  \/ \E v \in DataVals : setWeatherAlerts(v) /\ Small(data')
  \/ \E v \in DataVals : setOutages(v) /\ Small(data')
  \/ \E v \in DataVals : setAisData(v, 0) /\ Small(data')
  \/ \E v \in DataVals : setMilitaryFlights(v, 0) /\ Small(data')
  \/ \E v \in DataVals : setMilitaryVessels(v, 0) /\ Small(data')
  \/ \E v \in DataVals : setNaturalEvents(v) /\ Small(data')
  \/ \E v \in DataVals : setFires(v) /\ Small(data')
  \/ \E p \in {0, 1} : setProtests(p) /\ Small(data')
  \/ \E P \in SUBSET PipeIds : highlightAssets(P) /\ Small(data')

SpecMut == Init /\ [][NextMut]_vars

\* --- SpecPick: the picking resolver over the picks the renderer can report
\* layers that get a transparent ghost layer for hit-testing
GhostedIds == {"bases-layer", "nuclear-layer", "earthquakes-layer", "outages-layer",
               "protest-clusters-layer", "hotspots-layer"}

\* the pickable visual layers buildLayers() can create
VisualIds == (TooltipIds \ {"protests-layer"}) \cup {"protest-clusters-layer", "fires-layer"}

\* the objects a pick on a layer can return
ObjectsOf(id) ==
  CASE id = "protest-clusters-layer" ->
         UNION {ClustersOf(<<p, Floor2(z), b>>) : p \in ProtestColls, z \in LiveZooms, b \in Boxes}
    [] id = "hotspots-layer" -> {[hotspot |-> h] : h \in HotspotIds}
    [] id = "conflict-zones-layer" -> {[properties |-> [id |-> 1]]}
    [] OTHER -> {[rec |-> v] : v \in DataVals \ {0}}

\* [lon, lat] of the pointer
ClickCoordinate == <<10, 20>>

PickInfos ==
  {[NoPick EXCEPT !.coordinate = c] : c \in {<<>>, ClickCoordinate}}
  \cup UNION {{[object |-> <<o>>, layerId |-> id, coordinate |-> ClickCoordinate] :
                 o \in ObjectsOf(L),
                 id \in {L} \cup (IF L \in GhostedIds THEN {createGhostLayer(L, <<>>).id} ELSE {})} :
              L \in VisualIds}

NextPick ==
  \/ setOnCountryClick
  \/ setOnHotspotClick
  \/ \E info \in PickInfos : Hover(info)
  \/ \E info \in PickInfos : Click(info)

SpecPick == Init /\ [][NextPick]_vars

\* --- SpecLayers: buildLayers() over the states the setters can prepare
\* before the map loads
OnSets == {S \in SUBSET KeySet : Cardinality(S) <= MaxOn}
FilledSets == {S \in SUBSET Domains : Cardinality(S) <= MaxNonEmpty}

InitLayers ==
  \E S \in OnSets, F \in FilledSets, p \in ProtestColls, m \in SUBSET HotspotIds, z \in Zooms2 :
    \E d \in {[k \in Domains |-> IF k \in F THEN v ELSE 0] : v \in DataVals \ {0}} :
      /\ Cardinality(F) + (IF p # 0 THEN 1 ELSE 0) + Cardinality(m) <= MaxNonEmpty
      /\ layersOn = [k \in KeySet |-> k \in S] /\ data = d /\ protests = p
      /\ hotspots = [h \in HotspotIds |-> [level |-> "low", hasBreaking |-> h \in m, escalationScore |-> 0]]
      /\ highlightedPipes = {}
      /\ mapZoom2 = z /\ bbox = 0 /\ moving = FALSE /\ zoomed = FALSE
      /\ deckOverlay = FALSE /\ deckLayers = <<>> /\ fromCache = {} /\ PickIdle /\ AuxIdle
      /\ renderScheduled = FALSE /\ renderPaused = FALSE /\ renderPending = FALSE
      /\ rafPending = FALSE /\ rafQueue = <<>>
      /\ debounceTimers = {} /\ moveTimer = -1
      /\ pulseTimer = (IF m # {} THEN PulseUnits ELSE -1)
      /\ pulseIntervals = (IF m # {} THEN 1 ELSE 0) /\ flashTimers = <<>>
      /\ lastZoomThreshold = InitialThreshold /\ lastSCZoom = NoSCZoom
      /\ protestSC = (IF p # 0 THEN p ELSE -1) /\ protestClusters = <<>> /\ pipeCache = <<-1>>
      /\ last = Last("setup", 0, FALSE, FALSE)
      /\ renderCalls = 0 /\ pausedCalls = 0 /\ sinceCross = -1 /\ heavyRuns = 0 /\ heavyLevel = -1

NextLayers ==
  \/ Load
  \/ Frame

SpecLayers == InitLayers /\ [][NextLayers]_vars

\* --- SpecCluster: the protest clusters under data replaces, pans and zooms
\* the collections the cluster specification loads: [] and [calm, riot]
ClusterColls == {0, 3}

InitCluster == InitWith([k \in KeySet |-> k = "protests"], 3)

NextCluster ==
  \/ Load
  \/ Frame
  \/ Render
  \/ \E p \in ClusterColls : setProtests(p)
  \/ MoveStart
  \/ \E b \in Boxes : MapMove(b)
  \/ \E z \in LiveZooms : MapZoom(z, bbox)
  \/ MoveEnd
  \/ Tick
  \/ MoveTimeout
  \/ PulseTick

SpecCluster == InitCluster /\ [][NextCluster]_vars

\* ================================================================== claims

\* C1 (as stated): the frame callback that serves n >= 1 render() calls
\* invokes buildLayers() exactly once.
C1_FrameBuildsExactlyOnce ==
  (last.op = "frame" /\ last.calls >= 1) => last.rbuilds = 1

\* C1 (amended): n >= 1 render() calls made while not paused leave exactly one
\* frame callback of render() scheduled; when it runs it invokes buildLayers()
\* exactly once if the deck overlay exists and not at all before the map has
\* loaded; a render() call made while one is scheduled changes nothing.
C1_RenderCoalesced ==
  /\ [](/\ renderCalls >= 1 => (renderScheduled /\ Count("render", rafQueue) = 1)
        /\ renderCalls = 0 => (~renderScheduled /\ Count("render", rafQueue) = 0)
        /\ (last.op = "frame" /\ last.calls >= 1) =>
             /\ Count("render", last.ran) = 1
             /\ last.rbuilds = (IF deckOverlay THEN 1 ELSE 0))
  /\ [][(last'.op = "render" /\ ~renderPaused /\ renderScheduled) =>
          UNCHANGED <<dataVars, mapVars, deckVars, schedVars, timerVars, cacheVars>>]_vars

C1_Witness ==
  last.op = "frame" /\ last.calls >= 2 /\ last.rbuilds = 1 /\ deckLayers # <<>>

\* C4: render() calls made while paused leave renderPending set exactly when
\* there was at least one; setRenderPaused(false) then schedules exactly one
\* render and clears renderPending, and schedules nothing when no render() was
\* called during the pause or when it is called again.
C4_UnpauseSchedulesOne ==
  /\ [](/\ renderPending <=> pausedCalls >= 1
        /\ renderPending => renderPaused)
  /\ [][last'.op = "unpause" =>
          /\ ~renderPending' /\ ~renderPaused'
          /\ renderPending => (renderScheduled' /\ Count("render", rafQueue') = 1)
          /\ ~renderPending => (rafQueue' = rafQueue /\ renderScheduled' = renderScheduled)]_vars

C4_Witness ==
  /\ last.op = "unpause" /\ last.req /\ last.calls >= 2
  /\ rafQueue = <<"render">> /\ ~renderPending

\* C2 (as stated): whatever triggers were issued before it, one animation
\* frame performs at most one buildLayers() rebuild.
C2_OneBuildPerFrame ==
  last.op = "frame" => last.builds <= 1

\* C3 (as stated): while rendering is paused no handler invokes buildLayers(),
\* whatever was scheduled before the pause or requested during it.
C3_NoBuildWhilePaused ==
  renderPaused => last.builds = 0

\* C5 (as stated): the heavy rebuild of a burst of crossings is the only one,
\* runs 150 ms after the last crossing and is built from the zoom level in
\* effect at that crossing.
C5_BuiltFromLastCrossing ==
  last.op = "debounced" =>
    /\ heavyRuns = 1 /\ sinceCross = DebounceUnits
    /\ Floor2(ZoomOr2(mapZoom2)) = lastZoomThreshold

\* C5 (amended): a crossing replaces the pending debounced rebuild, so one
\* timer at most is pending and it is due 150 ms after the last crossing; one
\* heavy rebuild runs per burst, exactly then; it is built from the zoom the map
\* has when it runs, which is the level recorded at the last crossing unless a
\* gesture is still changing the zoom.
C5_OneRebuildFromLiveZoom ==
  /\ debounceTimers # {} => (sinceCross >= 0 /\ debounceTimers = {DebounceUnits - sinceCross})
  /\ heavyRuns <= 1
  /\ sinceCross > DebounceUnits => (heavyRuns = 1 /\ debounceTimers = {})
  /\ (sinceCross >= 0 /\ sinceCross <= DebounceUnits /\ heavyRuns = 1) =>
       (sinceCross = DebounceUnits /\ debounceTimers = {})
  /\ last.op = "debounced" =>
       /\ heavyRuns = 1 /\ sinceCross = DebounceUnits /\ debounceTimers = {}
       /\ ~moving => Floor2(ZoomOr2(mapZoom2)) = lastZoomThreshold

C5_Witness ==
  /\ last.op = "debounced" /\ heavyRuns = 1 /\ moving
  /\ Floor2(ZoomOr2(mapZoom2)) # lastZoomThreshold

\* C6 (as stated): a zoomend schedules the heavy rebuild iff the floored zoom
\* differs by at least 1 from the floored zoom at which the last heavy rebuild
\* was performed.
C6_CrossingVsLastRebuilt ==
  (last.zend /\ heavyLevel >= 0) =>
    (last.cross <=> Abs(Floor2(mapZoom2) - heavyLevel) >= 1)

\* C6 (amended): a zoomend schedules the heavy rebuild iff the floored zoom (a
\* zoom of exactly 0 reading as 2) differs by at least 1 from lastZoomThreshold,
\* the level recorded by the last zoomend that scheduled one (0 before any);
\* it then records the new level, and otherwise schedules and records nothing.
C6_CrossingVsRecorded ==
  [][last'.zend =>
       LET lvl == Floor2(ZoomOr2(mapZoom2'))
       IN /\ last'.cross <=> Abs(lvl - lastZoomThreshold) >= 1
          /\ last'.cross => /\ debounceTimers' = {DebounceUnits}
                            /\ lastZoomThreshold' = lvl
                            /\ sinceCross' = 0
          /\ ~last'.cross => UNCHANGED <<debounceTimers, lastZoomThreshold>>]_vars

C6_Witness ==
  /\ last.zend /\ last.cross
  /\ heavyLevel >= 0 /\ heavyLevel = Floor2(mapZoom2)
  /\ debounceTimers = {DebounceUnits}

\* the layer with the given id in the list handed to the renderer
HasLayer(id) == \E i \in 1..Len(deckLayers) : deckLayers[i].id = id

LayerData(id) == deckLayers[CHOOSE i \in 1..Len(deckLayers) : deckLayers[i].id = id].data

AlwaysRender ==
  {"setLayers", "toggleLayer", "setTimeRange", "setEarthquakes", "setWeatherAlerts",
   "setOutages", "setAisData", "setMilitaryFlights", "setMilitaryVessels",
   "setNaturalEvents", "setFires", "setProtests", "highlightAssets"}

Mutators == AlwaysRender \cup {"enableLayer", "setZoom", "setView"}

Requested ==
  IF renderPaused THEN renderPending
  ELSE renderScheduled /\ Count("render", rafQueue) = 1

\* C8 (as stated): every public mutator returns without a buildLayers() call
\* and with a render requested: a frame callback scheduled, or a render
\* pending.
C8_MutatorsRequestRender ==
  last.op \in Mutators =>
    /\ last.builds = 0
    /\ renderScheduled \/ rafPending \/ renderPending

\* C8 (amended): no public mutator invokes buildLayers(); setLayers,
\* toggleLayer, setTimeRange, the data setters and highlightAssets leave a
\* render requested (scheduled, or pending if paused); enableLayer does so only
\* when the layer was disabled and otherwise changes nothing; setView requests
\* nothing; setZoom never calls render(), and once the map has loaded its
\* moveend leaves one rafUpdateLayers frame scheduled.
C8_MutatorsAmended ==
  /\ [](last.op \in Mutators => last.builds = 0)
  /\ [](last.op \in AlwaysRender => Requested)
  /\ [][last'.op \in Mutators => UNCHANGED <<deckVars, protestClusters, pipeCache>>]_vars
  /\ [][last'.op = "enableLayer" =>
          IF layersOn' # layersOn THEN Requested' ELSE UNCHANGED schedVars]_vars
  /\ [][last'.op = "setView" => UNCHANGED schedVars]_vars
  /\ [][last'.op = "setZoom" =>
          /\ UNCHANGED <<renderScheduled, renderPaused, renderPending>>
          /\ IF deckOverlay THEN rafPending' /\ Count("raf", rafQueue') = 1
             ELSE UNCHANGED <<rafPending, rafQueue>>]_vars

C8_Witness ==
  /\ last.op = "enableLayer" /\ ~last.req /\ deckOverlay
  /\ ~renderScheduled /\ ~renderPending /\ ~rafPending

\* the layer ids of a domain that declares a minZoom
DomainLayers(k) ==
  CASE k = "bases" -> {"bases-layer", "bases-layer-ghost"}
    [] k = "nuclear" -> {"nuclear-layer", "nuclear-layer-ghost"}
    [] k = "conflicts" -> {"conflict-zones-layer"}
    [] k = "economic" -> {"economic-centers-layer"}
    [] k = "natural" -> {"earthquakes-layer", "earthquakes-layer-ghost", "natural-events-layer"}

\* C9 (as stated): a buildLayers() call made while the map zoom is below the
\* minZoom a layer key declares emits none of that domain's layers.
C9_BelowMinZoomOmitted ==
  last.builds >= 1 =>
    \A k \in DOMAIN LAYER_ZOOM_THRESHOLDS :
      mapZoom2 < 2 * LAYER_ZOOM_THRESHOLDS[k] =>
        \A i \in 1..Len(deckLayers) : deckLayers[i].id \notin DomainLayers(k)

\* the fixed draw order of the layer ids
LayerOrder ==
  <<"pipelines-layer", "conflict-zones-layer", "bases-layer", "bases-layer-ghost",
    "nuclear-layer", "nuclear-layer-ghost", "hotspots-layer", "hotspots-layer-ghost",
    "hotspots-pulse", "earthquakes-layer", "earthquakes-layer-ghost",
    "natural-events-layer", "fires-layer", "weather-layer", "outages-layer",
    "outages-layer-ghost", "ais-density-layer", "ais-disruptions-layer", "ports-layer",
    "protest-clusters-layer", "protest-clusters-layer-ghost", "protest-clusters-badge",
    "protest-clusters-pulse", "military-vessels-layer", "military-vessel-clusters-layer",
    "military-flights-layer", "military-flight-clusters-layer", "waterways-layer",
    "economic-centers-layer", "minerals-layer">>

Rank(id) == CHOOSE r \in 1..Len(LayerOrder) : LayerOrder[r] = id

InFixedOrder(ls) ==
  /\ \A i \in 1..Len(ls) : \E r \in 1..Len(LayerOrder) : LayerOrder[r] = ls[i].id
  /\ \A i \in 1..Len(ls), j \in 1..Len(ls) : i < j => Rank(ls[i].id) < Rank(ls[j].id)
  /\ \A i \in 1..Len(ls), j \in 1..Len(ls) :
       ls[j].id = ls[i].id \o "-ghost" => j = i + 1

\* C10: both the list buildLayers() would return now and the list last handed
\* to the renderer are sub-lists of one fixed order, and every ghost layer
\* comes directly after its visual layer.
C10_FixedLayerOrder ==
  /\ InFixedOrder(buildLayers(Caches))
  /\ InFixedOrder(deckLayers)

C10_Witness ==
  /\ last.builds >= 1 /\ Len(deckLayers) >= 5
  /\ HasLayer("protest-clusters-layer-ghost") /\ HasLayer("protest-clusters-badge")
  /\ HasLayer("hotspots-pulse")

\* the layer ids, visual and ghost, of each data collection
CollectionLayers(dom) ==
  CASE dom = "earthquakes" -> {"earthquakes-layer", "earthquakes-layer-ghost"}
    [] dom = "naturalEvents" -> {"natural-events-layer"}
    [] dom = "firmsFireData" -> {"fires-layer"}
    [] dom = "weatherAlerts" -> {"weather-layer"}
    [] dom = "outages" -> {"outages-layer", "outages-layer-ghost"}
    [] dom = "aisDensity" -> {"ais-density-layer"}
    [] dom = "aisDisruptions" -> {"ais-disruptions-layer"}
    [] dom = "militaryVessels" -> {"military-vessels-layer"}
    [] dom = "militaryVesselClusters" -> {"military-vessel-clusters-layer"}
    [] dom = "militaryFlights" -> {"military-flights-layer"}
    [] dom = "militaryFlightClusters" -> {"military-flight-clusters-layer"}

ProtestLayers ==
  {"protest-clusters-layer", "protest-clusters-layer-ghost",
   "protest-clusters-badge", "protest-clusters-pulse"}

IdsOf(ls) == {ls[i].id : i \in 1..Len(ls)}

\* C11: a list buildLayers() returns holds no layer, visual or ghost, of a
\* collection that is empty, whether or not its layer key is enabled; this holds
\* for the list it would return now and for the list last handed to the renderer.
C11_EmptyCollectionOmitted ==
  /\ \A dom \in Domains :
       data[dom] = 0 => IdsOf(buildLayers(Caches)) \cap CollectionLayers(dom) = {}
  /\ protests = 0 => IdsOf(buildLayers(Caches)) \cap ProtestLayers = {}
  /\ last.builds >= 1 =>
       /\ \A dom \in Domains : data[dom] = 0 => IdsOf(deckLayers) \cap CollectionLayers(dom) = {}
       /\ protests = 0 => IdsOf(deckLayers) \cap ProtestLayers = {}

C11_Witness ==
  /\ last.builds >= 1
  /\ layersOn["natural"] /\ data["earthquakes"] = 0 /\ data["naturalEvents"] # 0
  /\ IdsOf(deckLayers) = {"natural-events-layer"}

PositionOf(id) == CHOOSE i \in 1..Len(deckLayers) : deckLayers[i].id = id

DataIn(ls, id) == ls[CHOOSE i \in 1..Len(ls) : ls[i].id = id].data

\* C13 (as stated): when buildLayers() is called again, every layer that was
\* in the previous result and whose inputs did not change is the same object
\* in the new result, that is, it comes out of the layer cache.
C13_UnchangedLayersReused ==
  [][(last'.builds = 1 /\ last.builds <= 1) =>
       \A id \in IdsOf(deckLayers) \cap IdsOf(deckLayers') :
         DataIn(deckLayers, id) = DataIn(deckLayers', id) => id \in fromCache']_vars

\* C14 (as stated): in the clusters of a query for floored zoom Z and viewport
\* B, every protest of the queried collection that lies inside B is an item of
\* exactly one cluster, no protest is an item of two, and every count is the
\* number of items.
C14_ClustersCoverViewport ==
  protestClusters # <<>> =>
    LET cl == ClustersOf(protestClusters)
        all == ProtestEvents(protestClusters[1])
        inside == all \cap Covers(protestClusters[3])
    IN /\ \A e \in inside : Cardinality({c \in cl : e \in c.items}) = 1
       /\ \A e \in all : Cardinality({c \in cl : e \in c.items}) <= 1
       /\ \A c \in cl : c.count = Cardinality(c.items)

\* operations that run the pulse-qualification check needsPulseAnimation()
PulseReaders == {"setProtests", "updateHotspotActivity", "pulse"}

\* the last step ran a buildLayers() that emitted the protest layers
BuiltProtestLayers == last.builds >= 1 /\ layersOn["protests"] /\ protests # 0

\* C16: after setProtests(E) every read of the clusters, by buildLayers() or
\* by the pulse-qualification check, sees clusters derived from E, never
\* clusters computed from the collection that E replaced
C16_NoStaleClusterRead ==
  (last.op \in PulseReaders \/ BuiltProtestLayers) =>
    (protestClusters = <<>> \/ protestClusters[1] = protests)

\* C17 as stated: every buildLayers() that emits the protest layers uses the
\* clusters of the live viewport, and one that finds the cache key equal to
\* the floored zoom reuses the cached clusters
C17_NextBuildUsesNewViewport ==
  [][(last'.builds >= 1 /\ layersOn'["protests"] /\ protests' # 0) =>
       /\ protestClusters' = <<protests', Floor2(mapZoom2'), bbox'>>
       /\ (lastSCZoom = Floor2(mapZoom2) => protestClusters' = protestClusters)]_vars

\* C17 amended: the clusters a buildLayers() uses are those of the current
\* collection and floored zoom; they are the clusters of an earlier viewport
\* only while a gesture is still going on and its 100 ms move timeout is
\* pending, and then they are the cached ones; a build that finds the cache
\* key equal to the floored zoom always reuses the cache
C17_StaleOnlyDuringGesture ==
  [][(last'.builds >= 1 /\ layersOn'["protests"] /\ protests' # 0) =>
       /\ protestClusters'[1] = protests'
       /\ protestClusters'[2] = Floor2(mapZoom2')
       /\ (protestClusters'[3] # bbox' =>
             moving /\ moveTimer >= 0 /\ protestClusters' = protestClusters)
       /\ (lastSCZoom = Floor2(mapZoom2) => protestClusters' = protestClusters)]_vars

\* a build during a pan reused the clusters of the viewport before the pan
C17_Witness ==
  /\ BuiltProtestLayers
  /\ moving
  /\ protestClusters[3] # bbox

\* the last handler call was given an object picked on the protest cluster
\* layer or on its ghost
ClusterPicked ==
  /\ last.op \in {"getTooltip", "handleClick"}
  /\ pick.object # <<>>
  /\ pick.layerId \in {"protest-clusters-layer", "protest-clusters-layer-ghost"}

\* C15: a picked protest cluster with count 1 resolves to its single record:
\* the popup is <<"protest", that record>> and the tooltip prints that
\* record, through the visual and the ghost layer alike; the popup type
\* "protestCluster" is shown only for a cluster with count > 1
C15_SingleClusterResolvesToRecord ==
  ClusterPicked =>
    LET cluster == pick.object[1]
    IN /\ (cluster.count = 1 /\ last.op = "handleClick") =>
            \E e \in cluster.items :
              /\ cluster.items = {e}
              /\ calls = <<Call("popup.show", <<"protest", [event |-> e]>>)>>
              /\ popup = <<<<"protest", [event |-> e]>>>>
       /\ (cluster.count = 1 /\ last.op = "getTooltip") =>
            \E e \in cluster.items :
              tooltip = Tip("protest-clusters-layer/single", [event |-> e])
       /\ (last.op = "handleClick" /\ calls[1].args[1] = "protestCluster") => cluster.count > 1

\* a click on the ghost layer of a one-item cluster showed the protest popup
C15_Witness ==
  /\ last.op = "handleClick"
  /\ pick.object # <<>>
  /\ pick.layerId = "protest-clusters-layer-ghost"
  /\ pick.object[1].count = 1
  /\ popup # <<>> /\ popup[1][1] = "protest"

\* the same pick reported on the visual layer the ghost layer belongs to
VisualPick == [pick EXCEPT !.layerId = CHOOSE L \in VisualIds : createGhostLayer(L, <<>>).id = pick.layerId]

\* C18: a pick on the ghost layer of L gives the tooltip and the popup calls
\* that the same object picked on L gives, and no tooltip case or popup type
\* carries a ghost id
C18_GhostResolvesAsVisual ==
  /\ (pick.object # <<>> /\ endsWith(pick.layerId, "-ghost")) =>
       /\ last.op = "getTooltip" => tooltip = getTooltip(VisualPick)
       /\ last.op = "handleClick" => calls = handleClick(VisualPick)
       /\ last.op = "handleClick" => popup = PopupAfter(handleClick(VisualPick), <<>>)
  /\ tooltip # <<>> => ~endsWith(tooltip[1].tmpl, "-ghost")
  /\ popup # <<>> => ~endsWith(popup[1][1], "-ghost")

\* a click on the earthquake ghost layer showed the earthquake popup
C18_Witness ==
  /\ last.op = "handleClick"
  /\ pick.object # <<>>
  /\ pick.layerId = "earthquakes-layer-ghost"
  /\ popup = <<<<"earthquake", pick.object[1]>>>>

\* layer ids the tooltip switch or the popup resolution knows
KnownIds == TooltipIds \cup DOMAIN layerToPopupType \cup {"hotspots-layer", "protest-clusters-layer"}

\* neither the id nor, for a ghost id, the id of its visual layer is known
UnknownLayer(id) == \A L \in KnownIds : id # L /\ id # createGhostLayer(L, <<>>).id

\* C19: a pick of an object on an unknown layer yields a null tooltip, shows
\* no popup, invokes nothing and changes no state
C19_UnknownLayerNoInteraction ==
  [][(pick'.object # <<>> /\ UnknownLayer(pick'.layerId)) =>
       /\ last'.op = "getTooltip" => (tooltip' = <<>> /\ UNCHANGED <<popup, calls>>)
       /\ last'.op = "handleClick" => (calls' = <<>> /\ UNCHANGED <<popup, tooltip>>)
       /\ last'.op \in {"getTooltip", "handleClick"} =>
            UNCHANGED <<nonPickVars, onCountryClick, onHotspotClick>>]_vars

\* a click on a fire, with a popup of an earlier click still on screen
C19_Witness ==
  /\ last.op = "handleClick"
  /\ pick.object # <<>>
  /\ pick.layerId = "fires-layer"
  /\ calls = <<>>
  /\ popup # <<>>

\* C20: a click that picks nothing makes exactly the one call
\* onCountryClick(lat, lon) when it has a coordinate and the callback is
\* registered and makes no call otherwise, so no popup is shown; a click that
\* picks an object never calls onCountryClick
C20_CountryClickOnlyOnEmptyPick ==
  last.op = "handleClick" =>
    /\ pick.object = <<>> =>
         calls = IF pick.coordinate # <<>> /\ onCountryClick
                 THEN <<Call("onCountryClick", <<pick.coordinate[2], pick.coordinate[1]>>)>>
                 ELSE <<>>
    /\ pick.object # <<>> => \A i \in 1..Len(calls) : calls[i].fn # "onCountryClick"

\* an empty click with a coordinate reached the registered callback
C20_Witness ==
  /\ last.op = "handleClick"
  /\ pick.object = <<>>
  /\ pick.coordinate = ClickCoordinate
  /\ onCountryClick
  /\ Len(calls) = 1 /\ calls[1].fn = "onCountryClick"

\* --- SpecPulse: the pulse interval under data and hotspot updates, with
\* the protests and hotspots layers enabled
PulseColls == {0, 2}

InitPulse == InitWith([k \in KeySet |-> k \in {"protests", "hotspots"}], 3)

NextPulse ==
  \/ Load
  \/ Frame
  \/ \E p \in PulseColls : setProtests(p)
  \/ \E m \in SUBSET HotspotIds : updateHotspotActivityMatched(m)
  \/ \E l \in [HotspotIds -> Levels] : setHotspotLevels(l)
  \/ Tick
  \/ PulseTick

SpecPulse == InitPulse /\ [][NextPulse]_vars

\* the handlers that end by starting the pulse when it is needed
PulseStarters == {"setProtests", "updateHotspotActivity"}

\* C21: at most one pulse interval timer is alive, and it is alive exactly
\* while newsPulseIntervalId is set; a start while the timer runs changes
\* nothing; the timer only goes from stopped to running and back
C21_OnePulseTimer ==
  /\ [](pulseIntervals \in {0, 1} /\ (pulseIntervals = 1 <=> pulseTimer # -1))
  /\ [][(pulseTimer # -1 /\ last'.op \in PulseStarters) => UNCHANGED pulseVars]_vars
  /\ [][pulseIntervals' # pulseIntervals =>
          \/ pulseTimer = -1 /\ pulseTimer' # -1 /\ pulseIntervals' = 1
          \/ pulseTimer # -1 /\ pulseTimer' = -1 /\ pulseIntervals' = 0]_vars

\* a start was asked for while the interval was running and qualifying
C21_Witness ==
  /\ last.op \in PulseStarters
  /\ needsPulseAnimation
  /\ pulseTimer \in 0..(PulseUnits - 1)
  /\ pulseIntervals = 1

\* a hotspot is high or breaking
HotspotQualifies == \E h \in DOMAIN hotspots : hotspots[h].level = "high" \/ hotspots[h].hasBreaking

\* an entity of the current data qualifies for pulsing: a hotspot, or a
\* cluster of the current protest collection at the live zoom and viewport
Qualifies ==
  \/ HotspotQualifies
  \/ \E c \in ClustersOf(<<protests, Floor2(mapZoom2), bbox>>) : c.high

\* C22: once a frame has rendered the state an update left behind, the pulse
\* timer runs if that state holds a qualifying entity
C22_PulseRunsOnceRendered ==
  (last.op = "frame" /\ last.builds >= 1 /\ Qualifies) => pulseTimer # -1

\* C23: a pulse tick that finds no protest of the current collection
\* high-severity or a riot and no hotspot high or breaking stops the timer
C23_PulseStopsWhenNothingQualifies ==
  [][(last'.op = "pulse" /\ ~HotspotQualifies /\ 1 \notin ProtestEvents(protests)) =>
       (pulseTimer' = -1 /\ pulseIntervals' = 0)]_vars

\* --- SpecFlash: flashAssets and highlightAssets on the pipelines layer
InitFlash == InitWith([k \in KeySet |-> k = "pipelines"], 3)

NextFlash ==
  \/ Load
  \/ Frame
  \/ \E P \in SUBSET PipeIds : flashAssets(P)
  \/ \E P \in SUBSET PipeIds : highlightAssets(P)
  \/ Tick
  \/ FlashTimeout

SpecFlash == InitFlash /\ [][NextFlash]_vars

\* the flashAssets timeout that fires next
DueFlash ==
  flashTimers[CHOOSE j \in 1..Len(flashTimers) :
                /\ flashTimers[j].due = 0
                /\ \A k \in 1..(j - 1) : flashTimers[k].due # 0]

\* C24: flashAssets highlights the given ids and requests a render; its
\* timeout fires 3 seconds later, leaves none of those ids highlighted and
\* requests a render again
C24_FlashClearsAfterThreeSeconds ==
  /\ [][last'.op = "flashAssets" =>
          /\ flashTimers'[Len(flashTimers')].ids \subseteq highlightedPipes'
          /\ last'.req /\ (renderPaused \/ renderScheduled')]_vars
  /\ [][last'.op = "flashTimeout" =>
          /\ DueFlash.age * 50 = 3000
          /\ DueFlash.ids \cap highlightedPipes' = {}
          /\ last'.req /\ (renderPaused \/ renderScheduled')]_vars
  /\ [](\A i \in 1..Len(flashTimers) : flashTimers[i].age + flashTimers[i].due = FlashUnits)

\* three seconds after a flashAssets call its pipelines are still
\* highlighted and its timeout is due
C24_Witness ==
  \E i \in 1..Len(flashTimers) :
    /\ flashTimers[i].due = 0 /\ flashTimers[i].age = FlashUnits
    /\ flashTimers[i].ids # {} /\ flashTimers[i].ids \subseteq highlightedPipes

\* --- SpecBuild: buildLayers() with both of its caches in use
InitBuild == InitWith([k \in KeySet |-> k \in {"pipelines", "protests"}], 3)

NextBuild ==
  \/ Load
  \/ Frame
  \/ \E p \in ClusterColls : setProtests(p)
  \/ \E P \in SUBSET PipeIds : highlightAssets(P)
  \/ MoveStart
  \/ \E z \in LiveZooms : MapZoom(z, bbox)
  \/ MoveEnd
  \/ Tick
  \/ MoveTimeout
  \/ PulseTick

SpecBuild == InitBuild /\ [][NextBuild]_vars

\* two buildLayers() calls in a row: the second returns the list of the first
\* and leaves the caches as the first left them
BuildRepeatable ==
  /\ buildLayers(buildCaches(Caches)) = buildLayers(Caches)
  /\ buildCaches(buildCaches(Caches)) = buildCaches(Caches)

LevelColor(l) ==
  CASE l = "high" -> <<255, 68, 68>>
    [] l = "elevated" -> <<255, 165, 0>>
    [] l = "low" -> <<255, 255, 0>>

\* C27: every hotspot's colour band, chosen by its escalation score, is the
\* band of its level, so the colour and the pulse qualification never disagree
C27_LevelAgreesWithScore ==
  \A h \in DOMAIN hotspots : getFillColor(hotspots[h]) = LevelColor(hotspots[h].level)

\* --- SpecVariant: the SITE_VARIANT initialiser over its inputs
StoredValues == {<<>>, <<"energy">>, <<" tech ">>, <<"beta">>}

EnvValues == {<<>>, <<"">>, <<"energy">>, <<" full ">>, <<"tech">>}

InitVariant ==
  /\ InitMap(AllOff, 3)
  /\ hasWindow \in BOOLEAN
  /\ localStorage \in [StorageKeys -> StoredValues]
  /\ VITE_VARIANT \in EnvValues
  /\ siteVariant = <<>>
  /\ LogIdle /\ ScorerIdle /\ ExtraIdle

NextVariant == \E key \in StorageKeys : EvalVariant(key)

SpecVariant == InitVariant /\ [][NextVariant]_vars

\* C28: with VITE_VARIANT unset and nothing stored the variant is "energy";
\* otherwise it is the one VITE_VARIANT gives
C28_EnergyIsDefault ==
  siteVariant # <<>> =>
    IF VITE_VARIANT \in {<<>>, <<"">>}
    THEN localStorage[siteVariant[1].key] = <<>> => siteVariant[1].value = "energy"
    ELSE siteVariant[1].value = trim(VITE_VARIANT[1])

\* --- SpecLog: the streaming log under addEvents, clear and scrolling
Batches == UNION {[1..n -> EventRecords] : n \in 0..MaxBatch}

NextLog ==
  \/ \E batch \in Batches : addEvents(batch)
  \/ clear
  \/ \E atBottom \in BOOLEAN : Scroll(atBottom)
  \/ resumeAutoScroll

SpecLog == Init /\ [][NextLog]_vars

HeldIds == {logEvents[i].id : i \in 1..Len(logEvents)}

\* C29: no two held events share an id, seenIds is the set of the held ids,
\* and an addEvents entry whose id is already held leaves the held event as it
\* is; a batch of held ids only changes nothing
C29_SeenIdsAreHeldIds ==
  /\ [](\A i, j \in 1..Len(logEvents) : logEvents[i].id = logEvents[j].id => i = j)
  /\ [](seenIds = HeldIds)
  /\ [][last'.op = "addEvents" =>
          /\ \A i \in 1..Len(logEvents) :
               (\E k \in 1..Len(addArg') : addArg'[k].id = logEvents[i].id) =>
                 \A j \in 1..Len(logEvents') : logEvents'[j].id = logEvents[i].id => logEvents'[j] = logEvents[i]
          /\ (\A k \in 1..Len(addArg') : addArg'[k].id \in seenIds) =>
               UNCHANGED <<logEvents, seenIds, newEventCount, logCount>>]_vars

\* the log is full, an addEvents call has trimmed an event away, and its batch
\* named an id that was already held
C29_Witness ==
  /\ last.op = "addEvents"
  /\ Len(logEvents) = MAX_EVENTS
  /\ Len(addArg) = 2 /\ addArg[1].id \in seenIds /\ addArg[2].id \notin seenIds
  /\ \E i \in 1..Len(logEvents) : logEvents[i].id = addArg[1].id /\ logEvents[i] # addArg[1]

\* --- SpecScorer: news refreshes over two hotspots
ScoredIds == 1..NumScored

Ages == {-30, 60, TwoHours}

NewsItems == [title : Titles, age : Ages]

Feeds == UNION {[1..n -> NewsItems] : n \in 0..MaxNews}

InitScorer ==
  /\ InitOver(ScoredIds, AllOff, 3)
  /\ VariantIdle /\ LogIdle /\ ExtraIdle
  /\ news = <<>> /\ scorerCalls = <<>>
  /\ escalation = [h \in ScoredIds |-> [score |-> ScoreFloor, quiet |-> 0]]
  /\ zeroRun = [h \in ScoredIds |-> 0]

NextScorer ==
  \/ Load
  \/ Frame
  \/ \E feed \in Feeds : updateHotspotActivity(feed)

SpecScorer == InitScorer /\ [][NextScorer]_vars

RecentMentions(h) ==
  {i \in 1..Len(news) :
     /\ news[i].age < TwoHours
     /\ \E kw \in Keywords[h] : includes(toLowerCase(news[i].title), toLowerCase(kw))}

\* C30: an updateHotspotActivity call makes one scorer call per hotspot, with
\* matchCount the number of recent items that mention the hotspot, hasBreaking
\* = (matchCount > 0) and velocity = matchCount / 2, and it overwrites the
\* hasBreaking flag of every hotspot
C30_OneScorerCallPerHotspot ==
  last.op = "updateHotspotActivity" =>
    /\ DOMAIN scorerCalls = DOMAIN hotspots
    /\ \A h \in DOMAIN hotspots :
         /\ scorerCalls[h].id = h
         /\ scorerCalls[h].matchCount = Cardinality(RecentMentions(h))
         /\ scorerCalls[h].hasBreaking = (scorerCalls[h].matchCount > 0)
         /\ 2 * scorerCalls[h].velocity[1] = scorerCalls[h].matchCount * scorerCalls[h].velocity[2]
         /\ hotspots[h].hasBreaking = (Cardinality(RecentMentions(h)) > 0)

\* a feed with a recent upper-case mention of hotspot 1 and a mention of
\* hotspot 2 that is two hours old
C30_Witness ==
  /\ last.op = "updateHotspotActivity"
  /\ news = <<[title |-> "IRAN talks", age |-> 60], [title |-> "gaza and Tehran", age |-> TwoHours]>>
  /\ scorerCalls[1].matchCount = 1 /\ scorerCalls[2].matchCount = 0
  /\ hotspots[1].hasBreaking /\ ~hotspots[2].hasBreaking

\* ------------------------------------------------ highlights of every type
\* the inputs tried: lists of assets of two types, flashes of one id
AssetRecords == [type : {"pipeline", "cable"}, id : AssetIds]

FlashInputs == {"pipeline", "base"} \X {{"a"}, {"b"}}

AssetLists == UNION {[1..n -> AssetRecords] : n \in 0..MaxAssets}

InitAssets == InitWith([k \in KeySet |-> k = "pipelines"], 3)

NextAssets ==
  \/ \E l \in AssetLists : highlightAssetsOf(<<l>>)
  \/ highlightAssetsOf(<<>>)
  \/ \E f \in FlashInputs : flashAssetsOf(f[1], f[2])
  \/ FlashExpiry
  \/ PipelinesBuild

SpecAssets == InitAssets /\ [][NextAssets]_vars

\* C31: after any highlightAssets and flashAssets calls, the pipelines layer
\* buildLayers() returns is the cached object exactly when the highlighted
\* pipeline ids are the set that object was built with; otherwise a new layer
\* is built and cached, and the layer returned gives the override colour and
\* width to exactly the pipelines highlighted now.
C31_PipelinesCachedIffSameHighlights ==
  [][last'.op = "buildLayers" =>
       /\ pipelinesLayer'[1].hit <=>
            (layerCachePipelines # <<>>
             /\ layerCachePipelines[1].highlighted = highlightedAssets["pipeline"])
       /\ ~pipelinesLayer'[1].hit => layerCachePipelines' = <<pipelinesLayer'[1].layer>>
       /\ pipelinesLayer'[1].layer.highlighted = highlightedAssets["pipeline"]]_vars

\* C32: highlightAssets(assets) leaves in the set of each type exactly the
\* ids of the given assets of that type, whatever was highlighted before and
\* whether or not an id is the id of an asset; with null every set is empty;
\* in all cases a render is requested.
C32_HighlightAssetsReplacesAll ==
  [][last'.op = "highlightAssets" =>
       /\ \A t \in AssetTypes, id \in AssetIds :
            id \in highlightedAssets'[t] <=>
              (assetArg' # <<>> /\ \E i \in 1..Len(assetArg'[1]) :
                                     assetArg'[1][i] = [type |-> t, id |-> id])
       /\ assetArg' = <<>> => \A t \in AssetTypes : highlightedAssets'[t] = {}
       /\ last'.req /\ (renderPaused \/ renderScheduled')]_vars

\* two assets of different types are highlighted, one with an id of no asset,
\* and the ids a pending flash had added to a third type are gone
C32_Witness ==
  /\ last.op = "highlightAssets"
  /\ assetArg = <<<<[type |-> "pipeline", id |-> "a"], [type |-> "cable", id |-> "a|b"]>>>>
  /\ highlightedAssets["pipeline"] = {"a"} /\ highlightedAssets["cable"] = {"a|b"}
  /\ assetFlashes # <<>> /\ assetFlashes[1] = [type |-> "base", ids |-> {"b"}]
  /\ highlightedAssets["base"] = {}

\* the ids the last highlightAssets call highlighted, per type
Pinned(t) == IF assetArg = <<>> THEN {} ELSE IdsOfType(assetArg[1], t)

\* C37: when the timeout of a flash fires, an id it removes from the
\* highlighted set is neither one that highlightAssets highlighted nor one
\* that a later flash, whose 3 seconds have not elapsed, highlights.
C37_FlashExpiryRemovesOnlyItsOwn ==
  [][last'.op = "flashExpiry" =>
       \A t \in AssetTypes : \A id \in highlightedAssets[t] \ highlightedAssets'[t] :
         /\ id \notin Pinned(t)
         /\ \A i \in 1..Len(assetFlashes') :
              ~(assetFlashes'[i].type = t /\ id \in assetFlashes'[i].ids)]_vars

\* ---------------------------------------------------- log: limit and pause
\* the entries of a batch that addEvents pushes: the first of each id that
\* is not held
Pushed(batch) ==
  {batch[i] : i \in {k \in 1..Len(batch) :
                       /\ batch[k].id \notin seenIds
                       /\ \A j \in 1..(k - 1) : batch[j].id # batch[k].id}}

EventsOf(evs) == {evs[i] : i \in 1..Len(evs)}

\* C33: after any addEvents call the log holds at most MAX_EVENTS events,
\* newest first; the events it no longer holds, or did not take in, are not
\* newer than any it holds; the displayed count is the number held.
C33_LogBoundedNewestFirst ==
  [][last'.op = "addEvents" =>
       /\ Len(logEvents') <= MAX_EVENTS
       /\ \A i, j \in 1..Len(logEvents') :
            i < j => logEvents'[i].timestamp >= logEvents'[j].timestamp
       /\ \A e \in (EventsOf(logEvents) \cup Pushed(addArg')) \ EventsOf(logEvents') :
            \A h \in EventsOf(logEvents') : e.timestamp <= h.timestamp
       /\ EventsOf(logEvents') \subseteq EventsOf(logEvents) \cup Pushed(addArg')
       /\ logCount' = Len(logEvents')]_vars

\* a full log of old events took a newer one in and dropped one of the old
C33_Witness ==
  /\ last.op = "addEvents" /\ Len(logEvents) = MAX_EVENTS /\ logCount = MAX_EVENTS
  /\ Len(addArg) >= 1 /\ addArg[1].timestamp = MaxStamp
  /\ logEvents[1] = addArg[1] /\ logEvents[MAX_EVENTS].timestamp < MaxStamp
  /\ \E id \in 1..MaxIds : id \notin HeldIds

\* C40: autoScroll is true exactly when the panel is not paused; the resume
\* button is displayed only while the panel is paused with newEventCount > 0,
\* and its text gives the number of events added since the pause that the
\* log still holds.
C40_ResumeButtonTracksPause ==
  /\ autoScroll <=> ~isPaused
  /\ resumeVisible =>
       /\ isPaused /\ newEventCount > 0
       /\ resumeLabel = <<Cardinality(pausedIds \cap HeldIds)>>

\* ------------------------------------------------------------ well permits
NextWells ==
  \/ fetchWellPermits
  \/ \E res \in Responses : WellSettle(res)
  \/ WellClock

SpecWells == Init /\ [][NextWells]_vars

Failed(res) == res.kind \in {"throw", "notok", "badjson"}

\* C34: a fetchWellPermits call never rejects; when its response is not OK or
\* fetch() or res.json() throws, it returns the list of the last fetch that
\* succeeded, or an empty list when there is none, and the cache and its
\* timestamp stay as they are.
C34_FetchWellPermitsNeverRejects ==
  [][last'.op \in {"settle", "fetchWellPermits"} /\ wellReturn' # wellReturn =>
       /\ ~wellReturn'[1].rejected
       /\ Failed(wellReturn'[1].res) =>
            /\ wellReturn'[1].value = (IF lastFetched = <<>> THEN <<>> ELSE lastFetched[1].wells)
            /\ UNCHANGED <<cachedWells, cacheTimestamp>>]_vars

\* res.json() threw after an earlier fetch had succeeded with a permit, and
\* the call returned that permit
C34_Witness ==
  /\ last.op = "settle" /\ wellReturn # <<>> /\ wellReturn[1].res.kind = "badjson"
  /\ wellReturn[1].value = <<[lat |-> 1, lng |-> 1]>>
  /\ cachedWells = <<wellReturn[1].value>> /\ cacheTimestamp < now

\* C35: a call made less than CACHE_TTL after a fetch succeeded returns the
\* list of that fetch and makes no request; any other call makes a request;
\* a fetch that succeeds puts in the cache the permits of the response whose
\* lat and lng are both non-zero.
C35_CacheHonoursTTL ==
  /\ [][last'.op = "fetchWellPermits" =>
          IF lastFetched # <<>> /\ now - lastFetched[1].at < CACHE_TTL
          THEN /\ wellReturn' # <<>> /\ wellReturn'[1].value = lastFetched[1].wells
               /\ wellReturn'[1].res.kind = "cache"
               /\ UNCHANGED <<wellRequests, wellCalls>>
          ELSE wellRequests' = wellRequests + 1 /\ wellCalls' = wellCalls + 1]_vars
  /\ [][last'.op = "settle" /\ wellReturn'[1].res.kind = "ok" =>
          /\ cachedWells' = <<SelectSeq(IF wellReturn'[1].res.wells = <<>> THEN <<>>
                                        ELSE wellReturn'[1].res.wells[1],
                                        LAMBDA w : w.lat # 0 /\ w.lng # 0)>>
          /\ cacheTimestamp' = now]_vars

\* the cache was filled twice, the second time after the TTL had run out and
\* from a response with a permit at lat 0, and a call within the TTL has just
\* been answered from it
C35_Witness ==
  /\ last.op = "fetchWellPermits" /\ wellReturn # <<>> /\ wellReturn[1].res.kind = "cache"
  /\ wellRequests = 2 /\ wellCalls = 0
  /\ cacheTimestamp = CACHE_TTL /\ now = cacheTimestamp + CACHE_TTL - 1
  /\ wellReturn[1].value = <<[lat |-> 1, lng |-> 1]>>

\* ----------------------------------------------------------- macro signals
NextMacro == \E r \in RocInputs : macroHandler(r)

SpecMacro == Init /\ [][NextMacro]_vars

Known(m) == {i \in 1..Len(m.signals) : m.signals[i].status # "UNKNOWN"}

Bullish(m) ==
  {i \in Known(m) : \/ m.signals[i].name = "Liquidity" /\ m.signals[i].status = "NORMAL"
                    \/ m.signals[i].name = "Flow Structure" /\ m.signals[i].status = "ALIGNED"
                    \/ m.signals[i].name = "Macro Regime" /\ m.signals[i].status = "RISK-ON"}

\* C36: totalCount is the number of signals that are not UNKNOWN, at most 3,
\* and bullishCount the number of them that are NORMAL liquidity, ALIGNED
\* flow or RISK-ON regime; the verdict is UNKNOWN exactly when totalCount is
\* 0, and otherwise BUY when bullishCount / totalCount >= 0.57, CASH when not.
C36_VerdictFromBullishRatio ==
  macroResult # <<>> =>
    LET m == macroResult[1]
    IN /\ m.totalCount = Cardinality(Known(m)) /\ m.totalCount <= 3
       /\ m.bullishCount = Cardinality(Bullish(m)) /\ m.bullishCount <= m.totalCount
       /\ m.verdict = "UNKNOWN" <=> m.totalCount = 0
       /\ m.totalCount > 0 =>
            /\ m.verdict = "BUY" <=> 100 * m.bullishCount >= 57 * m.totalCount
            /\ m.verdict = "CASH" <=> 100 * m.bullishCount < 57 * m.totalCount

\* liquidity is squeezed, flow is aligned and the regime is unknown: one
\* bullish signal of two known, a ratio of 0.5, CASH
C36_Witness ==
  /\ macroResult # <<>>
  /\ macroResult[1].signals[1].status = "SQUEEZE"
  /\ macroResult[1].signals[2].status = "ALIGNED"
  /\ macroResult[1].signals[3].status = "UNKNOWN"
  /\ macroResult[1].totalCount = 2 /\ macroResult[1].bullishCount = 1
  /\ macroResult[1].verdict = "CASH"

\* ------------------------------------------------------ pickable and known
\* C39: a hover over an object of any pickable layer that buildLayers() can
\* emit, or of its ghost, yields a tooltip, and a click on it shows a popup.
C39_PickableLayersResolvable ==
  [][(pick'.object # <<>>
      /\ \E L \in VisualIds : pick'.layerId \in {L, createGhostLayer(L, <<>>).id}) =>
       /\ last'.op = "getTooltip" => tooltip' # <<>>
       /\ last'.op = "handleClick" =>
            \E i \in 1..Len(calls') : calls'[i].fn = "popup.show"]_vars

\* ------------------------------------------------------------------ destroy
\* destroy(): the move timeout and the pulse interval are cleared and
\* layerCache is emptied; deckOverlay is finalized but stays in its field;
\* pending animation frames, debounce and flash timeouts are not touched
destroy ==
  /\ moveTimer' = -1
  /\ pulseTimer' = -1
  /\ pulseIntervals' = IF pulseTimer # -1 THEN pulseIntervals - 1 ELSE pulseIntervals
  /\ pipeCache' = <<-1>> /\ layerCachePipelines' = <<>>
  /\ destroyed' = TRUE
  /\ last' = Last("destroy", 0, FALSE, FALSE)
  /\ UNCHANGED <<dataVars, mapVars, overlayVars, schedVars, debounceTimers, flashTimers>>
  /\ UNCHANGED <<lastZoomThreshold, lastSCZoom, protestSC, protestClusters>>
  /\ UNCHANGED <<variantVars, logVars, scorerVars, wellVars, macroVars>>
  /\ UNCHANGED <<highlightedAssets, lastPipelineHighlightSignature, pipelinesLayer, assetFlashes, assetArg>>
  /\ UNCHANGED <<renderCalls, pausedCalls>>
  /\ NoZoomHist

InitDestroy == InitWith([k \in KeySet |-> k \in {"pipelines", "hotspots"}], 3)

\* no other timer of the instance is pending and no gesture is under way
Quiet == flashTimers = <<>> /\ pulseTimer = -1 /\ moveTimer = -1 /\ debounceTimers = {} /\ ~moving

\* the owner calls nothing and the removed map sends no event once the
\* instance is destroyed; frames and timers that are pending still come.
\* The runs tried begin a flash, a gesture or a pulse at a quiet moment.
NextDestroy ==
  \/ ~destroyed /\ Load
  \/ ~destroyed /\ Render
  \/ ~destroyed /\ Quiet /\ flashAssets(PipeIds)
  \/ ~destroyed /\ Quiet /\ MoveStart
  \/ ~destroyed /\ \E z \in LiveZooms : MapZoom(z, bbox)
  \/ ~destroyed /\ MoveEnd
  \/ ~destroyed /\ Quiet /\ \E m \in SUBSET HotspotIds : updateHotspotActivityMatched(m)
  \/ ~destroyed /\ destroy
  \/ Frame
  \/ Tick
  \/ MoveTimeout
  \/ DebouncedRebuild
  \/ PulseTick
  \/ FlashTimeout

SpecDestroy == InitDestroy /\ [][NextDestroy]_vars

\* C38: once destroy() has run, no step of the instance calls buildLayers()
\* or hands layers to the renderer: the pulse timer, the move timeout, a
\* scheduled render, a pending debounced rebuild and the pending flash
\* expiries are cancelled or do nothing.
C38_NothingRunsAfterDestroy ==
  [][destroyed => (last'.builds = 0 /\ UNCHANGED deckLayers)]_vars
====
